---- MODULE Spec2Model ----
(***************************************************************************)
(* A model of the rnote engine (rnote-engine/src/engine.rs) and of the     *)
(* stroke store it drives: the component tables keyed by StrokeKey, the    *)
(* history stacks, the render states, the rasterization jobs running on    *)
(* the worker pool and the task channel that the owner thread drains with  *)
(* process_received_task().                                                *)
(*                                                                         *)
(* engine.rs and store/chrono_comp.rs are modelled from their code.  The   *)
(* bodies of the other StrokeStore methods that engine.rs calls (insert,   *)
(* remove, record, undo, redo, regenerate_rendering_in_viewport_threaded,  *)
(* replace_rendering_with_images, append_rendering_images) are modelled    *)
(* from the specification's sections 3 to 5.                               *)
(***************************************************************************)
EXTENDS Integers, Sequences, FiniteSets, Bags, TLC

(***************************************************************************)
(* Bounds of the model.                                                    *)
(***************************************************************************)
\* strokes inserted in one run
MaxStrokes == 2
\* content mutations of one stroke (its content versions are 0..MaxEdits)
MaxEdits == 1
\* rasterization jobs running on the worker pool at once
MaxJobs == 2
\* messages waiting in the task channel at once
MaxTasks == 2
\* entries of the undo stack
MaxHistory == 1
\* images cached for one stroke
MaxImages == 2
\* the highest user layer in use
MaxUserLayer == 1
\* keys of a store whose chrono components are given
MaxChronoKeys == 3
\* the highest t a given chrono component holds, and promotions beyond it
MaxT == 2
\* export jobs running on the worker pool at once
MaxExports == 1

\* promotions of keys to the front of their layer
MaxPromotions == 2
MaxConfigValue == 1         \* the values a field of the config takes: 0..MaxConfigValue

VARIABLES
    store,             \* RnoteEngine.store: the component tables and the key tree
    key_counter,       \* the key allocator: keys handed out so far
    chrono_counter,    \* StrokeStore.chrono_counter
    undo_stack,        \* history entries that undo() installs
    redo_stack,        \* history entries that redo() installs
    camera_offset,     \* RnoteEngine.camera.offset
    jobs,              \* bag of rasterization jobs running on the worker pool
    tasks,             \* messages in the channel tasks_tx -> tasks_rx, oldest first
    consumer_running,  \* the loop that receives from tasks_rx has not exited
    exports,           \* the export jobs on the worker pool, each with its store snapshot
    sorted_keys,       \* the Vec<StrokeKey> that the last chrono query returned
    document,          \* RnoteEngine.document
    penholder,         \* RnoteEngine.penholder
    pdf_import_prefs,  \* RnoteEngine.pdf_import_prefs
    pen_sounds,        \* RnoteEngine.pen_sounds
    audioplayer,       \* RnoteEngine.audioplayer: <<>> is None, <<a>> is Some(a)
    applied,           \* history variable: per key, results applied since it last became Dirty
    last_op            \* history variable: the operation that produced this state

\* Document::default(), PenHolder::default(), PdfImportPrefs::default()
ConfigDefault == 0

\* the fields of the engine that its config holds, and the audio player
config_vars == <<document, penholder, pdf_import_prefs, pen_sounds, audioplayer>>

vars == <<store, key_counter, chrono_counter, undo_stack, redo_stack,
          camera_offset, jobs, tasks, consumer_running, exports, sorted_keys,
          config_vars, applied, last_op>>

(***************************************************************************)
(* Geometry: an AABB is an interval <<min, max>> on one axis.              *)
(***************************************************************************)
StrokeBounds == {<<0, 1>>, <<4, 5>>}

CameraOffsets == {0, 4}

\* Camera::viewport(): the visible part of the document
Viewport == <<camera_offset, camera_offset + 2>>

\* AABB::intersects
Intersects(a, b) == a[1] <= b[2] /\ b[1] <= a[2]

(***************************************************************************)
(* chrono_comp.rs                                                          *)
(***************************************************************************)
\* impl Default for StrokeLayer
StrokeLayerDefault == <<"UserLayer", 0>>

\* ChronoComponent::new
ChronoComponentNew(t, layer) == [t |-> t, layer |-> layer]

\* the variants of StrokeLayer, with the user layers 0..MaxUserLayer
StrokeLayers ==
    {<<"Document", 0>>, <<"Image", 0>>, <<"Highlighter", 0>>}
        \cup {<<"UserLayer", n>> : n \in 0..MaxUserLayer}

\* A u32 is kept as its two 16-bit halves <<high, low>>: TLC's integers end
\* below 2^32.  U32Half is 2^16.
U32Half == 65536

\* the u32 of a number below 2^31
U32(n) == <<n \div U32Half, n % U32Half>>

\* u32::MAX
U32Max == <<U32Half - 1, U32Half - 1>>

\* u32::cmp
U32Cmp(a, b) ==
    IF a[1] < b[1] \/ (a[1] = b[1] /\ a[2] < b[2]) THEN "Less"
    ELSE IF a = b THEN "Equal" ELSE "Greater"

\* u32 += 1 in a build without overflow checks: u32::MAX wraps to 0
U32WrappingAddOne(a) ==
    IF a[2] < U32Half - 1 THEN <<a[1], a[2] + 1>>
    ELSE IF a[1] < U32Half - 1 THEN <<a[1] + 1, 0>>
    ELSE <<0, 0>>

\* an equality that compares the variants only
StrokeLayerEq_DiscriminantOnly(this, other) == this[1] = other[1]

\* impl PartialEq for StrokeLayer: eq; user layers by their number, the other
\* variants by their discriminant
StrokeLayerEq(this, other) ==
    CASE this[1] = "UserLayer" /\ other[1] = "UserLayer" -> this[2] = other[2]
      [] OTHER -> this[1] = other[1]

\* a comparison of layers in which Highlighter sorts below every other layer
StrokeLayerCmp_HighlighterLowest(this, other) ==
    CASE this[1] = "UserLayer" /\ other[1] = "UserLayer" -> U32Cmp(U32(this[2]), U32(other[2]))
      [] this[1] = "UserLayer" /\ other[1] # "UserLayer" -> "Greater"
      [] this[1] = "Highlighter" /\ other[1] = "Highlighter" -> "Equal"
      [] this[1] = "Highlighter" /\ other[1] # "Highlighter" -> "Less"
      [] this[1] = "Image" /\ other[1] = "UserLayer" -> "Less"
      [] this[1] = "Image" /\ other[1] = "Highlighter" -> "Greater"
      [] this[1] = "Image" /\ other[1] = "Image" -> "Equal"
      [] this[1] = "Image" /\ other[1] = "Document" -> "Greater"
      [] this[1] = "Document" /\ other[1] = "Document" -> "Equal"
      [] this[1] = "Document" /\ other[1] = "Highlighter" -> "Greater"
      [] this[1] = "Document" /\ other[1] \in {"UserLayer", "Image"} -> "Less"

\* impl Ord for StrokeLayer: cmp, the arms of its match in their order
StrokeLayerCmp(this, other) ==
    CASE this[1] = "UserLayer" /\ other[1] = "UserLayer" -> U32Cmp(U32(this[2]), U32(other[2]))
      [] this[1] = "UserLayer" /\ other[1] # "UserLayer" -> "Greater"
      [] this[1] = "Highlighter" /\ other[1] = "UserLayer" -> "Less"
      [] this[1] = "Highlighter" /\ other[1] = "Highlighter" -> "Equal"
      [] this[1] = "Highlighter" /\ other[1] \in {"Image", "Document"} -> "Greater"
      [] this[1] = "Image" /\ other[1] \in {"UserLayer", "Highlighter"} -> "Less"
      [] this[1] = "Image" /\ other[1] = "Image" -> "Equal"
      [] this[1] = "Image" /\ other[1] = "Document" -> "Greater"
      [] this[1] = "Document" /\ other[1] = "Document" -> "Equal"
      [] this[1] = "Document" /\ other[1] # "Document" -> "Less"

\* a closure that compares as the derived Ord of ChronoComponent does: t
\* first, then the layer
ChronoCmp_DerivedOrd(chrono_components, first, second) ==
    IF first \in DOMAIN chrono_components /\ second \in DOMAIN chrono_components
    THEN LET t_order == U32Cmp(chrono_components[first].t, chrono_components[second].t)
         IN  IF t_order # "Equal"
             THEN t_order
             ELSE StrokeLayerCmp(chrono_components[first].layer,
                                 chrono_components[second].layer)
    ELSE "Equal"

\* the closure that keys_sorted_chrono and keys_sorted_chrono_intersecting_bounds
\* sort by: the layer first, then t; Equal when a chrono component is missing
ChronoCmp(chrono_components, first, second) ==
    IF first \in DOMAIN chrono_components /\ second \in DOMAIN chrono_components
    THEN LET layer_order == StrokeLayerCmp(chrono_components[first].layer,
                                           chrono_components[second].layer)
         IN  IF layer_order # "Equal"
             THEN layer_order
             ELSE U32Cmp(chrono_components[first].t, chrono_components[second].t)
    ELSE "Equal"

\* the orderings of a set of keys
KeyOrders(keys) ==
    {p \in [1..Cardinality(keys) -> keys] : \A i, j \in DOMAIN p : i # j => p[i] # p[j]}

\* the closure is a total order on the keys, up to ties
ChronoCmpConsistent(chrono_components, keys) ==
    \A a, b, c \in keys :
        LET ab == ChronoCmp(chrono_components, a, b)
            bc == ChronoCmp(chrono_components, b, c)
            ac == ChronoCmp(chrono_components, a, c)
        IN  /\ (ab = "Equal" /\ bc = "Equal") => ac = "Equal"
            /\ (ab = "Less" /\ bc # "Greater") => ac = "Less"
            /\ (ab # "Greater" /\ bc = "Less") => ac = "Less"

\* par_sort_unstable_by, the orders it may leave the keys in: sorted by the
\* closure, the keys that tie in any order; any order at all when the closure
\* is not a total order
ParSortUnstableBy(chrono_components, keys) ==
    IF ChronoCmpConsistent(chrono_components, keys)
    THEN {p \in KeyOrders(keys) :
             \A i, j \in DOMAIN p :
                 i < j => ChronoCmp(chrono_components, p[i], p[j]) # "Greater"}
    ELSE KeyOrders(keys)

(***************************************************************************)
(* Functions as tables.                                                    *)
(***************************************************************************)
EmptyTable == [k \in {} |-> 0]

TableInsert(f, key, v) == [k \in DOMAIN f \cup {key} |-> IF k = key THEN v ELSE f[k]]

TableRemove(f, key) == [k \in DOMAIN f \ {key} |-> f[k]]

(***************************************************************************)
(* The store.                                                              *)
(***************************************************************************)
\* StrokeStore::default(): no strokes
StrokeStoreDefault ==
    [stroke_components    |-> EmptyTable,
     chrono_components    |-> EmptyTable,
     trash_components     |-> EmptyTable,
     selection_components |-> EmptyTable,
     render_components    |-> EmptyTable,
     key_tree             |-> EmptyTable]

\* the keys of the store
Keys(s) == DOMAIN s.stroke_components

\* the image a rasterization of content c yields: it shows stroke c.id at version c.ver
ImageOf(c) == [id |-> c.id, ver |-> c.ver]

\* an allocator that hands out the lowest key that is not in the store
AllocateKey_Reuse ==
    CHOOSE k \in 1..(Cardinality(Keys(store)) + 1) :
        k \notin Keys(store) /\ \A j \in 1..(k - 1) : j \in Keys(store)

\* the key allocator of the stroke table: a key never handed out before
AllocateKey == key_counter + 1

\* StrokeStore::insert_stroke: all entries of the key are created together
InsertedStore(s, key, bounds) ==
    [stroke_components    |-> TableInsert(s.stroke_components, key,
                                 [id |-> key_counter + 1, ver |-> 0, bounds |-> bounds]),
     chrono_components    |-> TableInsert(s.chrono_components, key,
                                 ChronoComponentNew(U32WrappingAddOne(chrono_counter), StrokeLayerDefault)),
     trash_components     |-> TableInsert(s.trash_components, key, FALSE),
     selection_components |-> TableInsert(s.selection_components, key, FALSE),
     render_components    |-> TableInsert(s.render_components, key,
                                 [state |-> "Dirty", images |-> <<>>]),
     key_tree             |-> TableInsert(s.key_tree, key, bounds)]

\* a removal that leaves the entry of the key in the key tree
RemovedStore_KeepsKeyTree(s, key) ==
    [stroke_components    |-> TableRemove(s.stroke_components, key),
     chrono_components    |-> TableRemove(s.chrono_components, key),
     trash_components     |-> TableRemove(s.trash_components, key),
     selection_components |-> TableRemove(s.selection_components, key),
     render_components    |-> TableRemove(s.render_components, key),
     key_tree             |-> s.key_tree]

\* StrokeStore::remove_stroke: all entries of the key are purged together
RemovedStore(s, key) ==
    [stroke_components    |-> TableRemove(s.stroke_components, key),
     chrono_components    |-> TableRemove(s.chrono_components, key),
     trash_components     |-> TableRemove(s.trash_components, key),
     selection_components |-> TableRemove(s.selection_components, key),
     render_components    |-> TableRemove(s.render_components, key),
     key_tree             |-> TableRemove(s.key_tree, key)]

\* a mutation that changes the stroke and leaves its old bounds in the key tree
MutatedStore_StaleBounds(s, key, bounds) ==
    [s EXCEPT !.stroke_components[key] = [@ EXCEPT !.ver = @ + 1, !.bounds = bounds],
              !.render_components[key] = [@ EXCEPT !.state = "Dirty"]]

\* a content or geometry mutation of a stroke: new content, new bounds in the
\* key tree and the render state Dirty, in one step; the cached images stay
MutatedStore(s, key, bounds) ==
    [s EXCEPT !.stroke_components[key] = [@ EXCEPT !.ver = @ + 1, !.bounds = bounds],
              !.key_tree[key] = bounds,
              !.render_components[key] = [@ EXCEPT !.state = "Dirty"]]

(***************************************************************************)
(* The render pipeline of the store.                                       *)
(***************************************************************************)
\* the keys a regeneration pass renders: in the viewport, and Dirty or forced
RegenerateKeys(s, force, viewport) ==
    {k \in Keys(s) : /\ Intersects(s.key_tree[k], viewport)
                     /\ (force \/ s.render_components[k].state = "Dirty")}

\* StrokeStore::regenerate_rendering_in_viewport_threaded, the store afterwards:
\* every rendered key is Busy
RegenerateStore(s, force, viewport) ==
    [s EXCEPT !.render_components =
        [k \in DOMAIN s.render_components |->
            IF k \in RegenerateKeys(s, force, viewport)
            THEN [s.render_components[k] EXCEPT !.state = "Busy"]
            ELSE s.render_components[k]]]

\* StrokeStore::regenerate_rendering_in_viewport_threaded, the jobs it submits:
\* one per rendered key, holding a snapshot of the key's content
RegenerateJobs(s, force, viewport) ==
    {[key |-> k, content |-> s.stroke_components[k]] :
        k \in RegenerateKeys(s, force, viewport)}

\* StrokeStore::replace_rendering_with_images: discarded when the key is gone
ReplaceRenderingWithImages(s, key, images) ==
    IF key \in DOMAIN s.render_components
    THEN [s EXCEPT !.render_components[key] = [state |-> "Rendered", images |-> images]]
    ELSE s

\* StrokeStore::append_rendering_images: discarded when the key is gone
AppendRenderingImages(s, key, images) ==
    IF key \in DOMAIN s.render_components
    THEN [s EXCEPT !.render_components[key] =
             [state |-> "Rendered", images |-> @.images \o images]]
    ELSE s

(***************************************************************************)
(* History of the store.                                                   *)
(***************************************************************************)
\* a history entry that keeps the Busy marks of the store it copies
HistoryEntry_KeepsBusy(s) == s

\* a history entry: the table set, its render states without in-flight marks
HistoryEntry(s) ==
    [s EXCEPT !.render_components =
        [k \in DOMAIN s.render_components |->
            IF s.render_components[k].state = "Busy"
            THEN [s.render_components[k] EXCEPT !.state = "Dirty"]
            ELSE s.render_components[k]]]

\* the tables of a store that a history entry restores as they were: all but
\* the render components, whose in-flight marks are not part of an entry
Tables(s) ==
    [stroke_components    |-> s.stroke_components,
     chrono_components    |-> s.chrono_components,
     trash_components     |-> s.trash_components,
     selection_components |-> s.selection_components,
     key_tree             |-> s.key_tree]

\* an undo that installs the tables of the entry but keeps the live stroke contents
StoreUndoStore_KeepsContent ==
    IF undo_stack = <<>>
    THEN store
    ELSE [undo_stack[Len(undo_stack)] EXCEPT
             !.stroke_components =
                 [k \in DOMAIN @ |-> IF k \in Keys(store)
                                     THEN store.stroke_components[k] ELSE @[k]]]

\* StrokeStore::undo, the store afterwards: no-op on an empty undo stack
StoreUndoStore == IF undo_stack = <<>> THEN store ELSE undo_stack[Len(undo_stack)]

StoreUndoUndoStack ==
    IF undo_stack = <<>> THEN undo_stack ELSE SubSeq(undo_stack, 1, Len(undo_stack) - 1)

StoreUndoRedoStack ==
    IF undo_stack = <<>> THEN redo_stack ELSE Append(redo_stack, HistoryEntry(store))

\* a restore that regenerates the rendering of every restored key by itself
StoreRestoreJobs_Regenerates(restored) ==
    {[key |-> k, content |-> restored.stroke_components[k]] : k \in Keys(restored)}

\* StrokeStore::undo and StrokeStore::redo, the render jobs they submit on
\* installing an entry: none, the caller is told by the returned flags
StoreRestoreJobs(restored) == {}

\* a redo that installs an empty store when there is nothing to redo
StoreRedoStore_ClearsOnEmpty ==
    IF redo_stack = <<>> THEN StrokeStoreDefault ELSE redo_stack[Len(redo_stack)]

\* StrokeStore::redo, symmetric
StoreRedoStore == IF redo_stack = <<>> THEN store ELSE redo_stack[Len(redo_stack)]

StoreRedoRedoStack ==
    IF redo_stack = <<>> THEN redo_stack ELSE SubSeq(redo_stack, 1, Len(redo_stack) - 1)

StoreRedoUndoStack ==
    IF redo_stack = <<>> THEN undo_stack ELSE Append(undo_stack, HistoryEntry(store))

(***************************************************************************)
(* Store snapshots for export (engine.rs) and the sharing of tables.       *)
(***************************************************************************)
\* an edit that writes through the Arc of a table: an export job whose snapshot
\* still shares the table with the live store sees the edit
AfterEdit_InPlace(e, old, new) ==
    {[j EXCEPT !.snapshot = [f \in DOMAIN old |->
                                IF j.snapshot[f] = old[f] THEN new[f] ELSE j.snapshot[f]]] :
        j \in e}

\* the export jobs after an edit that takes the live store from old to new: the
\* edit goes through Arc::make_mut, which clones a table that a snapshot shares
\* and writes to the clone, so the snapshots keep what they held
AfterEdit(e, old, new) == e

(***************************************************************************)
(* History variables.                                                      *)
(***************************************************************************)
\* results applied per key since the key last became Dirty, after a step that
\* takes the render components from old to new without applying a result
AppliedAfter(old, new) ==
    [k \in DOMAIN new |->
        IF new[k].state = "Dirty" /\ (k \notin DOMAIN old \/ old[k].state # "Dirty")
        THEN 0
        ELSE IF k \in DOMAIN applied THEN applied[k] ELSE 0]

Op(name, key) == [op |-> name, key |-> key]

(***************************************************************************)
(* The task channel and process_received_task (engine.rs).                 *)
(***************************************************************************)
\* EngineTask
UpdateStrokeWithImages(key, images) ==
    [type |-> "UpdateStrokeWithImages", key |-> key, images |-> images]

AppendImagesToStroke(key, images) ==
    [type |-> "AppendImagesToStroke", key |-> key, images |-> images]

Quit == [type |-> "Quit", key |-> 0, images |-> <<>>]

\* WidgetFlags::default()
WidgetFlagsDefault == [redraw |-> FALSE, indicate_changed_store |-> FALSE, quit |-> FALSE]

\* process_received_task without its calls into the store
ProcessReceivedTaskStore_IgnoresImages(s, task) == s

\* process_received_task writing the render component of the message's key
\* itself, where the code asks the store, which looks the key up
ProcessReceivedTaskStore_Upsert(s, task) ==
    IF task.type = "Quit"
    THEN s
    ELSE [s EXCEPT !.render_components =
             TableInsert(@, task.key, [state |-> "Rendered", images |-> task.images])]

\* process_received_task, the store afterwards; an Err of the store is logged only
ProcessReceivedTaskStore(s, task) ==
    CASE task.type = "UpdateStrokeWithImages" ->
            ReplaceRenderingWithImages(s, task.key, task.images)
      [] task.type = "AppendImagesToStroke" ->
            AppendRenderingImages(s, task.key, task.images)
      [] task.type = "Quit" -> s

\* process_received_task with a Quit arm that sets no flag
ProcessReceivedTaskFlags_NoQuit(task) ==
    IF task.type = "Quit"
    THEN WidgetFlagsDefault
    ELSE [WidgetFlagsDefault EXCEPT !.redraw = TRUE, !.indicate_changed_store = TRUE]

\* process_received_task with an AppendImagesToStroke arm that asks for no
\* redraw
ProcessReceivedTaskFlags_NoRedrawOnAppend(task) ==
    CASE task.type = "UpdateStrokeWithImages" ->
            [WidgetFlagsDefault EXCEPT !.redraw = TRUE, !.indicate_changed_store = TRUE]
      [] task.type = "AppendImagesToStroke" ->
            [WidgetFlagsDefault EXCEPT !.indicate_changed_store = TRUE]
      [] task.type = "Quit" -> [WidgetFlagsDefault EXCEPT !.quit = TRUE]

\* process_received_task, the widget flags it returns
ProcessReceivedTaskFlags(task) ==
    CASE task.type = "UpdateStrokeWithImages" ->
            [WidgetFlagsDefault EXCEPT !.redraw = TRUE, !.indicate_changed_store = TRUE]
      [] task.type = "AppendImagesToStroke" ->
            [WidgetFlagsDefault EXCEPT !.redraw = TRUE, !.indicate_changed_store = TRUE]
      [] task.type = "Quit" -> [WidgetFlagsDefault EXCEPT !.quit = TRUE]

(***************************************************************************)
(* Initial state: RnoteEngine::new().                                      *)
(***************************************************************************)
Init ==
    /\ store = StrokeStoreDefault
    /\ key_counter = 0
    /\ chrono_counter = U32(0)
    /\ undo_stack = <<>>
    /\ redo_stack = <<>>
    /\ camera_offset = 0
    /\ document = ConfigDefault
    /\ penholder = ConfigDefault
    /\ pdf_import_prefs = ConfigDefault
    /\ pen_sounds = FALSE
    /\ audioplayer = <<>>
    /\ jobs = EmptyBag
    /\ tasks = <<>>
    /\ consumer_running = TRUE
    /\ exports = {}
    /\ sorted_keys = <<>>
    /\ applied = EmptyTable
    /\ last_op = Op("new", 0)

(***************************************************************************)
(* Operations of the owner thread.                                         *)
(***************************************************************************)
\* a stroke is inserted into the store
InsertStroke(bounds) ==
    /\ key_counter < MaxStrokes
    /\ store' = InsertedStore(store, AllocateKey, bounds)
    /\ exports' = AfterEdit(exports, store, store')
    /\ key_counter' = key_counter + 1
    /\ chrono_counter' = U32WrappingAddOne(chrono_counter)
    /\ applied' = AppliedAfter(store.render_components, store'.render_components)
    /\ last_op' = Op("insert", AllocateKey)
    /\ UNCHANGED <<config_vars, sorted_keys, undo_stack, redo_stack, camera_offset, jobs, tasks, consumer_running>>

\* a stroke is removed from the store
RemoveStroke(key) ==
    /\ key \in Keys(store)
    /\ store' = RemovedStore(store, key)
    /\ exports' = AfterEdit(exports, store, store')
    /\ applied' = AppliedAfter(store.render_components, store'.render_components)
    /\ last_op' = Op("remove", key)
    /\ UNCHANGED <<config_vars, sorted_keys, key_counter, chrono_counter, undo_stack, redo_stack, camera_offset,
                   jobs, tasks, consumer_running>>

\* the content or geometry of a stroke is mutated
MutateStroke(key, bounds) ==
    /\ key \in Keys(store)
    /\ store.stroke_components[key].ver < MaxEdits
    /\ store' = MutatedStore(store, key, bounds)
    /\ exports' = AfterEdit(exports, store, store')
    /\ applied' = AppliedAfter(store.render_components, store'.render_components)
    /\ last_op' = Op("mutate", key)
    /\ UNCHANGED <<config_vars, sorted_keys, key_counter, chrono_counter, undo_stack, redo_stack, camera_offset,
                   jobs, tasks, consumer_running>>

\* RnoteEngine::update_camera_offset
UpdateCameraOffset(new_offset) ==
    /\ camera_offset' = new_offset
    /\ last_op' = Op("camera", 0)
    /\ UNCHANGED <<config_vars, store, exports, sorted_keys, key_counter, chrono_counter, undo_stack, redo_stack,
                   jobs, tasks, consumer_running, applied>>

\* a pass that regenerates whatever the render state is
UpdateRenderingForce_True == TRUE

\* the force_regenerate argument that update_rendering_current_viewport passes
UpdateRenderingForce == FALSE

\* RnoteEngine::update_rendering_current_viewport, the store afterwards
UpdateRenderingStore(s) == RegenerateStore(s, UpdateRenderingForce, Viewport)

\* RnoteEngine::update_rendering_current_viewport, the jobs it submits
UpdateRenderingJobs(s) == RegenerateJobs(s, UpdateRenderingForce, Viewport)

\* RnoteEngine::update_rendering_current_viewport
UpdateRenderingCurrentViewport ==
    /\ BagCardinality(jobs) + Cardinality(UpdateRenderingJobs(store)) <= MaxJobs
    /\ store' = UpdateRenderingStore(store)
    /\ exports' = AfterEdit(exports, store, store')
    /\ jobs' = jobs (+) SetToBag(UpdateRenderingJobs(store))
    /\ applied' = AppliedAfter(store.render_components, store'.render_components)
    /\ last_op' = Op("update_rendering", 0)
    /\ UNCHANGED <<config_vars, sorted_keys, key_counter, chrono_counter, undo_stack, redo_stack, camera_offset,
                   tasks, consumer_running>>

\* StrokeStore::clear: every table is emptied, the chrono counter and the
\* history start over; the key allocator goes on
ClearedStore == StrokeStoreDefault

\* RnoteEngine::clear
Clear ==
    /\ store' = ClearedStore
    /\ exports' = AfterEdit(exports, store, store')
    /\ chrono_counter' = U32(0)
    /\ undo_stack' = <<>>
    /\ redo_stack' = <<>>
    /\ applied' = AppliedAfter(store.render_components, store'.render_components)
    /\ last_op' = Op("clear", 0)
    /\ UNCHANGED <<config_vars, sorted_keys, key_counter, camera_offset, jobs, tasks, consumer_running>>

\* a record that keeps the redo stack
Record_KeepsRedoStack ==
    /\ Len(undo_stack) < MaxHistory
    /\ undo_stack' = Append(undo_stack, HistoryEntry(store))
    /\ last_op' = Op("record", 0)
    /\ UNCHANGED <<config_vars, store, exports, sorted_keys, key_counter, chrono_counter, camera_offset,
                   jobs, tasks, consumer_running, applied, redo_stack>>

\* RnoteEngine::record
Record ==
    /\ Len(undo_stack) < MaxHistory
    /\ undo_stack' = Append(undo_stack, HistoryEntry(store))
    /\ redo_stack' = <<>>
    /\ last_op' = Op("record", 0)
    /\ UNCHANGED <<config_vars, store, exports, sorted_keys, key_counter, chrono_counter, camera_offset, jobs, tasks,
                   consumer_running, applied>>

\* the pen styles current_style_w_override may return
PenStyles == {"Brush", "Selector"}

\* RnoteEngine::undo and redo, the Cancel events handled before the store is
\* restored: one unless the pen is the selector.  What the pen does with the
\* event is outside this model.
PenEventsHandled(current_pen_style) == IF current_pen_style # "Selector" THEN 1 ELSE 0

\* an undo or redo that renders the viewport before it restores the store
UndoRedoRenderingJobs_BeforeRestore(current, restored) == UpdateRenderingJobs(current)

\* RnoteEngine::undo and redo, the jobs they submit: store.undo() or redo()
\* comes first, update_rendering_current_viewport() last, on the restored store
UndoRedoRenderingJobs(current, restored) == UpdateRenderingJobs(restored)

\* RnoteEngine::undo: the pen's Cancel, the store's undo, then the rendering
\* of the viewport; last_op keeps the number of Cancel events handled
Undo ==
    /\ BagCardinality(jobs) + Cardinality(UpdateRenderingJobs(StoreUndoStore)) <= MaxJobs
    /\ Cardinality(StoreRestoreJobs(StoreUndoStore)) <= MaxJobs
    /\ store' = UpdateRenderingStore(StoreUndoStore)
    /\ exports' = AfterEdit(exports, StoreUndoStore, store')
    /\ undo_stack' = StoreUndoUndoStack
    /\ redo_stack' = StoreUndoRedoStack
    /\ jobs' = jobs (+) SetToBag(StoreRestoreJobs(StoreUndoStore))
                  (+) SetToBag(UndoRedoRenderingJobs(store, StoreUndoStore))
    /\ applied' = AppliedAfter(store.render_components, store'.render_components)
    /\ \E current_pen_style \in PenStyles :
          last_op' = Op("undo", PenEventsHandled(current_pen_style))
    /\ UNCHANGED <<config_vars, sorted_keys, key_counter, chrono_counter, camera_offset, tasks, consumer_running>>

\* RnoteEngine::redo: the pen's Cancel, the store's redo, then the rendering
\* of the viewport
Redo ==
    /\ BagCardinality(jobs) + Cardinality(UpdateRenderingJobs(StoreRedoStore)) <= MaxJobs
    /\ Cardinality(StoreRestoreJobs(StoreRedoStore)) <= MaxJobs
    /\ store' = UpdateRenderingStore(StoreRedoStore)
    /\ exports' = AfterEdit(exports, StoreRedoStore, store')
    /\ undo_stack' = StoreRedoUndoStack
    /\ redo_stack' = StoreRedoRedoStack
    /\ jobs' = jobs (+) SetToBag(StoreRestoreJobs(StoreRedoStore))
                  (+) SetToBag(UndoRedoRenderingJobs(store, StoreRedoStore))
    /\ applied' = AppliedAfter(store.render_components, store'.render_components)
    /\ \E current_pen_style \in PenStyles :
          last_op' = Op("redo", PenEventsHandled(current_pen_style))
    /\ UNCHANGED <<config_vars, sorted_keys, key_counter, chrono_counter, camera_offset, tasks, consumer_running>>

\* promotions go on while the counter is low, or at the top of its range
PromotionsLeft ==
    \/ U32Cmp(chrono_counter, U32(MaxT + MaxPromotions)) = "Less"
    \/ chrono_counter = U32Max

\* a promotion that gives a key without a chrono component a new one
UpdateChronoToLast_Upserts(key) ==
    /\ PromotionsLeft
    /\ chrono_counter' = U32WrappingAddOne(chrono_counter)
    /\ store' = [store EXCEPT !.chrono_components =
                    TableInsert(@, key,
                        ChronoComponentNew(U32WrappingAddOne(chrono_counter),
                            IF key \in DOMAIN @ THEN @[key].layer ELSE StrokeLayerDefault))]
    /\ exports' = AfterEdit(exports, store, store')
    /\ last_op' = Op("update_chrono_to_last", key)
    /\ UNCHANGED <<config_vars, sorted_keys, key_counter, undo_stack, redo_stack, camera_offset, jobs,
                   tasks, consumer_running, applied>>

\* StrokeStore::update_chrono_to_last: the key gets the next value of the
\* counter as its t; without a chrono component nothing changes.  With the
\* counter at u32::MAX the increment wraps to 0, or, in a build with overflow
\* checks, panics before anything is written.
UpdateChronoToLast(key) ==
    /\ PromotionsLeft
    /\ \E overflow_checks \in BOOLEAN :
          IF key \notin DOMAIN store.chrono_components
          THEN /\ UNCHANGED <<chrono_counter, store>>
               /\ last_op' = Op("update_chrono_to_last", key)
          ELSE IF chrono_counter = U32Max /\ overflow_checks
          THEN /\ UNCHANGED <<chrono_counter, store>>
               /\ last_op' = Op("update_chrono_to_last_panic", key)
          ELSE /\ chrono_counter' = U32WrappingAddOne(chrono_counter)
               /\ store' = [store EXCEPT !.chrono_components[key].t =
                               U32WrappingAddOne(chrono_counter)]
               /\ last_op' = Op("update_chrono_to_last", key)
    /\ exports' = AfterEdit(exports, store, store')
    /\ UNCHANGED <<config_vars, sorted_keys, key_counter, undo_stack, redo_stack, camera_offset, jobs,
                   tasks, consumer_running, applied>>

\* StrokeStore::keys_sorted_chrono, the vectors it may return
KeysSortedChronoResults(s) ==
    ParSortUnstableBy(s.chrono_components, DOMAIN s.stroke_components)

\* KeyTree::keys_intersecting_bounds: the keys whose entry intersects the bounds
KeysIntersectingBounds(key_tree, bounds) ==
    {k \in DOMAIN key_tree : Intersects(key_tree[k], bounds)}

\* StrokeStore::keys_sorted_chrono_intersecting_bounds, the vectors it may return
KeysSortedChronoIntersectingBoundsResults(s, bounds) ==
    ParSortUnstableBy(s.chrono_components, KeysIntersectingBounds(s.key_tree, bounds))

\* a call of StrokeStore::keys_sorted_chrono
KeysSortedChrono ==
    /\ \E keys \in KeysSortedChronoResults(store) : sorted_keys' = keys
    /\ last_op' = Op("keys_sorted_chrono", 0)
    /\ UNCHANGED <<config_vars, store, exports, key_counter, chrono_counter, undo_stack, redo_stack,
                   camera_offset, jobs, tasks, consumer_running, applied>>

\* a call of StrokeStore::keys_sorted_chrono_intersecting_bounds; last_op keeps
\* the bounds that were asked for
KeysSortedChronoIntersectingBounds(bounds) ==
    /\ \E keys \in KeysSortedChronoIntersectingBoundsResults(store, bounds) :
          sorted_keys' = keys
    /\ last_op' = Op("keys_sorted_chrono_intersecting_bounds", bounds)
    /\ UNCHANGED <<config_vars, store, exports, key_counter, chrono_counter, undo_stack, redo_stack,
                   camera_offset, jobs, tasks, consumer_running, applied>>

\* the bounds of the pages of the document
PagesBounds == {<<0, 2>>, <<3, 5>>}

\* the page at the origin of the document
OriginPage == <<0, 2>>

\* a stroke gets or loses its trashed flag
SetTrashed(key, trashed) ==
    /\ key \in DOMAIN store.trash_components
    /\ store.trash_components[key] # trashed
    /\ store' = [store EXCEPT !.trash_components[key] = trashed]
    /\ exports' = AfterEdit(exports, store, store')
    /\ last_op' = Op("set_trashed", key)
    /\ UNCHANGED <<config_vars, sorted_keys, key_counter, chrono_counter, undo_stack, redo_stack,
                   camera_offset, jobs, tasks, consumer_running, applied>>

\* the keys of a vector
KeysOf(keys) == {keys[i] : i \in 1..Len(keys)}

\* a query of the rendered keys that keeps the trashed ones
StrokeKeysAsRenderedResults_WithTrashed(s) == KeysSortedChronoResults(s)

\* StrokeStore::stroke_keys_as_rendered, the vectors it may return: the keys
\* in chrono order without the trashed ones
StrokeKeysAsRenderedResults(s) ==
    {SelectSeq(keys, LAMBDA k : k \in DOMAIN s.trash_components /\ ~s.trash_components[k]) :
        keys \in KeysSortedChronoResults(s)}

\* StrokeStore::strokes_bounds: the bounds of the strokes of the keys
StrokesBounds(s, keys) ==
    {s.stroke_components[k].bounds : k \in keys \cap DOMAIN s.stroke_components}

\* pages_bounds_w_content without the origin page for a document with no
\* content
PagesBoundsWContent_NoOriginPage(s) ==
    LET keys           == CHOOSE keys \in StrokeKeysAsRenderedResults(s) : TRUE
        strokes_bounds == StrokesBounds(s, KeysOf(keys))
    IN  {page_bounds \in PagesBounds :
            \E stroke_bounds \in strokes_bounds : Intersects(stroke_bounds, page_bounds)}

\* RnoteEngine::pages_bounds_w_content: the pages that intersect a rendered
\* stroke, the origin page when there is none
PagesBoundsWContent(s) ==
    LET keys           == CHOOSE keys \in StrokeKeysAsRenderedResults(s) : TRUE
        strokes_bounds == StrokesBounds(s, KeysOf(keys))
        pages_bounds   == {page_bounds \in PagesBounds :
                              \E stroke_bounds \in strokes_bounds :
                                  Intersects(stroke_bounds, page_bounds)}
    IN  IF pages_bounds = {} THEN {OriginPage} ELSE pages_bounds

\* the fold of AABB::merged over the pages, from AABB::new_invalid()
MergedBounds(pages_bounds) ==
    <<CHOOSE lo \in {b[1] : b \in pages_bounds} : \A b \in pages_bounds : lo <= b[1],
      CHOOSE hi \in {b[2] : b \in pages_bounds} : \A b \in pages_bounds : b[2] <= hi>>

\* RnoteEngine::bounds_w_content_extended: <<>> is None, <<b>> is Some(b)
BoundsWContentExtended(s) ==
    LET pages_bounds == PagesBoundsWContent(s)
    IN  IF pages_bounds = {} THEN <<>> ELSE <<MergedBounds(pages_bounds)>>

\* a call of RnoteEngine::bounds_w_content_extended; last_op keeps whether it
\* returned Some (1) or None (0)
BoundsWContentExtendedCall ==
    /\ last_op' = Op("bounds_w_content_extended", Len(BoundsWContentExtended(store)))
    /\ UNCHANGED <<config_vars, store, exports, sorted_keys, key_counter, chrono_counter,
                   undo_stack, redo_stack, camera_offset, jobs, tasks, consumer_running,
                   applied>>

\* RnoteEngine::export_doc_as_xopp_bytes: one XoppPage for each page that
\* pages_bounds_w_content returns; last_op keeps the number of pages of the
\* XoppRoot
ExportDocAsXoppBytes ==
    /\ last_op' = Op("export_doc_as_xopp_bytes", Cardinality(PagesBoundsWContent(store)))
    /\ UNCHANGED <<config_vars, store, exports, sorted_keys, key_counter, chrono_counter,
                   undo_stack, redo_stack, camera_offset, jobs, tasks, consumer_running,
                   applied>>

\* a call of StrokeStore::stroke_keys_as_rendered
StrokeKeysAsRendered ==
    /\ \E keys \in StrokeKeysAsRenderedResults(store) : sorted_keys' = keys
    /\ last_op' = Op("stroke_keys_as_rendered", 0)
    /\ UNCHANGED <<config_vars, store, exports, key_counter, chrono_counter, undo_stack, redo_stack,
                   camera_offset, jobs, tasks, consumer_running, applied>>

\* RnoteEngine::gen_doc_svg: the strokes drawn into the svg are the keys that
\* stroke_keys_as_rendered returns; sorted_keys keeps them
GenDocSvg ==
    /\ \E strokes \in StrokeKeysAsRenderedResults(store) : sorted_keys' = strokes
    /\ last_op' = Op("gen_doc_svg", 0)
    /\ UNCHANGED <<config_vars, store, exports, key_counter, chrono_counter, undo_stack, redo_stack,
                   camera_offset, jobs, tasks, consumer_running, applied>>

\* StrokeStore::take_store_snapshot: the tables of the store, shared with it
TakeStoreSnapshot(s) == s

\* StrokeStore::stroke_keys_as_rendered_intersecting_bounds: not trashed
StrokeKeysAsRenderedIntersectingBounds(s, bounds) ==
    {k \in KeysIntersectingBounds(s.key_tree, bounds) :
        k \in DOMAIN s.trash_components /\ ~s.trash_components[k]}

\* RnoteEngine::export_doc_as_pdf_bytes: the snapshot is taken and the keys of
\* every page with content are collected in the call; the worker draws them
\* later
ExportDocAsPdfBytes ==
    /\ Cardinality(exports) < MaxExports
    /\ exports' = exports \cup
          {[kind     |-> "pdf",
            snapshot |-> TakeStoreSnapshot(store),
            taken    |-> store,
            pages    |-> PagesBoundsWContent(store),
            keys     |-> UNION {StrokeKeysAsRenderedIntersectingBounds(store, page) :
                                   page \in PagesBoundsWContent(store)}]}
    /\ last_op' = Op("export_doc_as_pdf_bytes", 0)
    /\ UNCHANGED <<config_vars, store, sorted_keys, key_counter, chrono_counter, undo_stack, redo_stack,
                   camera_offset, jobs, tasks, consumer_running, applied>>

\* StoreSnapshot::process_before_saving: the trashed strokes are taken out of
\* the snapshot
ProcessBeforeSaving(snapshot) ==
    LET kept == {k \in DOMAIN snapshot.trash_components : ~snapshot.trash_components[k]}
    IN  [snapshot EXCEPT
            !.stroke_components = [k \in DOMAIN @ \cap kept |-> @[k]],
            !.chrono_components = [k \in DOMAIN @ \cap kept |-> @[k]],
            !.trash_components  = [k \in DOMAIN @ \cap kept |-> @[k]]]

\* a save that prepares the tables of the live store themselves
LiveStoreAfterSaving_InPlace(s) == ProcessBeforeSaving(s)

\* the live store after save_as_rnote_bytes, which has the engine by shared
\* reference: Arc::make_mut writes to the snapshot's own copy of what it
\* shares with the live store
LiveStoreAfterSaving(s) == s

\* the outcomes of a serialization or of the drawing of a document
SerializationResults == {"Ok", "Err"}

\* a save that spawns its worker whatever the serialization of the document
\* returned
SaveAsRnoteBytes_SpawnsAnyway(doc) ==
    /\ Cardinality(exports) < MaxExports
    /\ exports' = exports \cup
          {[kind     |-> "rnote",
            snapshot |-> ProcessBeforeSaving(TakeStoreSnapshot(store)),
            taken    |-> store,
            pages    |-> {},
            keys     |-> Keys(ProcessBeforeSaving(store))]}
    /\ store' = LiveStoreAfterSaving(store)
    /\ last_op' = Op(IF doc = "Ok" THEN "save_as_rnote_bytes" ELSE "save_as_rnote_bytes_err", 0)
    /\ UNCHANGED <<config_vars, sorted_keys, key_counter, chrono_counter, undo_stack, redo_stack,
                   camera_offset, jobs, tasks, consumer_running, applied>>

\* RnoteEngine::save_as_rnote_bytes: the document is serialized in the call,
\* and a failure of that returns Err before the worker is spawned; the worker
\* serializes the whole snapshot
SaveAsRnoteBytes(doc) ==
    /\ Cardinality(exports) < MaxExports
    /\ exports' = IF doc = "Ok"
                  THEN exports \cup
                          {[kind     |-> "rnote",
                            snapshot |-> ProcessBeforeSaving(TakeStoreSnapshot(store)),
                            taken    |-> store,
                            pages    |-> {},
                            keys     |-> Keys(ProcessBeforeSaving(store))]}
                  ELSE exports
    /\ store' = LiveStoreAfterSaving(store)
    /\ last_op' = Op(IF doc = "Ok" THEN "save_as_rnote_bytes" ELSE "save_as_rnote_bytes_err", 0)
    /\ UNCHANGED <<config_vars, sorted_keys, key_counter, chrono_counter, undo_stack, redo_stack,
                   camera_offset, jobs, tasks, consumer_running, applied>>

\* the name under which last_op keeps what the worker of an export did with
\* its result
SentAs(result) == IF result = "Ok" THEN "export_sent_ok" ELSE "export_sent_err"

\* the worker of an export reads its snapshot and sends its result, the bytes
\* or the failure, on the one-shot channel; the sender is used up by that
ExportWorkerFinishes(job, result) ==
    /\ job \in exports
    /\ exports' = exports \ {job}
    /\ last_op' = Op(SentAs(result), 0)
    /\ UNCHANGED <<config_vars, store, sorted_keys, key_counter, chrono_counter, undo_stack, redo_stack,
                   camera_offset, jobs, tasks, consumer_running, applied>>

\* the values of document, of penholder and of pdf_import_prefs
ConfigValues == 0..MaxConfigValue

\* a serde_json::Value read as a T: <<>> when from_value::<T> returns Err,
\* <<v>> when it returns Ok(v)
JsonValues(T) == {<<>>} \cup {<<v>> : v \in T}

\* a serialized config: <<>> when from_str::<EngineConfig> returns Err, else
\* <<c>> with c the EngineConfig it returns, whose four fields are
\* serde_json::Value
SerializedConfigs ==
    {<<>>} \cup {<<c>> : c \in [document         : JsonValues(ConfigValues),
                                penholder        : JsonValues(ConfigValues),
                                pdf_import_prefs : JsonValues(ConfigValues),
                                pen_sounds       : JsonValues(BOOLEAN)]}

\* how many of the four assignments of load_engine_config run before
\* the first `?` that returns
FieldsAssigned(serialized_config) ==
    IF serialized_config = <<>> THEN 0
    ELSE LET engine_config == serialized_config[1]
         IN  IF engine_config.document = <<>> THEN 0
             ELSE IF engine_config.penholder = <<>> THEN 1
             ELSE IF engine_config.pdf_import_prefs = <<>> THEN 2
             ELSE IF engine_config.pen_sounds = <<>> THEN 3
             ELSE 4

\* RnoteEngine::set_pen_sounds, the audio player it leaves
SetPenSounds(player, sounds) ==
    IF player = <<>> THEN player ELSE <<[player[1] EXCEPT !.enabled = sounds]>>

\* RnoteEngine::load_engine_config: the fields are assigned one by one, each
\* after its own deserialization, and the first failure returns
LoadEngineConfig(serialized_config) ==
    LET assigned == FieldsAssigned(serialized_config)
        engine_config == serialized_config[1]
    IN  /\ document' = IF assigned >= 1 THEN engine_config.document[1] ELSE document
        /\ penholder' = IF assigned >= 2 THEN engine_config.penholder[1] ELSE penholder
        /\ pdf_import_prefs' = IF assigned >= 3 THEN engine_config.pdf_import_prefs[1]
                                ELSE pdf_import_prefs
        /\ pen_sounds' = IF assigned >= 4 THEN engine_config.pen_sounds[1] ELSE pen_sounds
        /\ audioplayer' = IF assigned >= 4
                           THEN SetPenSounds(audioplayer, engine_config.pen_sounds[1])
                           ELSE audioplayer
        /\ last_op' = Op(IF assigned = 4 THEN "load_engine_config"
                          ELSE "load_engine_config_err", assigned)
        /\ UNCHANGED <<store, exports, sorted_keys, key_counter, chrono_counter, undo_stack,
                       redo_stack, camera_offset, jobs, tasks, consumer_running, applied>>

\* the application sends EngineTask::Quit on tasks_tx
SendQuit ==
    /\ consumer_running
    /\ Len(tasks) < MaxTasks
    /\ \A i \in 1..Len(tasks) : tasks[i].type # "Quit"
    /\ tasks' = Append(tasks, Quit)
    /\ last_op' = Op("send_quit", 0)
    /\ UNCHANGED <<config_vars, store, exports, sorted_keys, key_counter, chrono_counter, undo_stack, redo_stack,
                   camera_offset, jobs, consumer_running, applied>>

\* one turn of the loop that receives from tasks_rx: process_received_task on
\* the oldest message; the loop exits when the flags say quit
ProcessReceivedTask ==
    /\ consumer_running
    /\ tasks # <<>>
    /\ LET task == Head(tasks)
           flags == ProcessReceivedTaskFlags(task)
           live == task.type # "Quit" /\ task.key \in Keys(store)
       IN  /\ (live /\ task.type = "AppendImagesToStroke") =>
                  Len(store.render_components[task.key].images) < MaxImages
           /\ store' = ProcessReceivedTaskStore(store, task)
           /\ exports' = AfterEdit(exports, store, store')
           /\ consumer_running' = ~flags.quit
           /\ applied' = IF live
                         THEN [k \in DOMAIN store'.render_components |->
                                  IF k = task.key
                                  THEN (IF applied[k] < 2 THEN applied[k] + 1 ELSE 2)
                                  ELSE IF k \in DOMAIN applied THEN applied[k] ELSE 0]
                         ELSE AppliedAfter(store.render_components, store'.render_components)
           /\ last_op' = Op(IF task.type = "Quit" THEN "quit"
                            ELSE IF live THEN "applied" ELSE "dropped", task.key)
    /\ tasks' = Tail(tasks)
    /\ UNCHANGED <<config_vars, sorted_keys, key_counter, chrono_counter, undo_stack, redo_stack, camera_offset, jobs>>

(***************************************************************************)
(* Steps of the worker pool.                                               *)
(***************************************************************************)
\* the kinds of result message a worker sends
ResultTypes == {"UpdateStrokeWithImages", "AppendImagesToStroke"}

\* the message a job sends when its rasterization succeeds: the images of
\* its snapshot, to replace the cached images of the key or to append to them
JobResult(job, type) ==
    IF type = "UpdateStrokeWithImages"
    THEN UpdateStrokeWithImages(job.key, <<ImageOf(job.content)>>)
    ELSE AppendImagesToStroke(job.key, <<ImageOf(job.content)>>)

\* a worker finishes a job and sends its result on tasks_tx
JobCompletes(job, type) ==
    /\ BagIn(job, jobs)
    /\ Len(tasks) < MaxTasks
    /\ jobs' = jobs (-) SetToBag({job})
    /\ tasks' = Append(tasks, JobResult(job, type))
    /\ last_op' = Op("job_completes", job.key)
    /\ UNCHANGED <<config_vars, store, exports, sorted_keys, key_counter, chrono_counter, undo_stack, redo_stack,
                   camera_offset, consumer_running, applied>>

\* a worker that answers a failed rasterization with an empty image set
JobFails_SendsEmptyImages(job) ==
    /\ BagIn(job, jobs)
    /\ Len(tasks) < MaxTasks
    /\ jobs' = jobs (-) SetToBag({job})
    /\ tasks' = Append(tasks, UpdateStrokeWithImages(job.key, <<>>))
    /\ last_op' = Op("job_fails", job.key)
    /\ UNCHANGED <<config_vars, store, exports, sorted_keys, key_counter, chrono_counter, undo_stack, redo_stack,
                   camera_offset, consumer_running, applied>>

\* the rasterization of a job fails: it is logged, nothing is sent
JobFails(job) ==
    /\ BagIn(job, jobs)
    /\ jobs' = jobs (-) SetToBag({job})
    /\ last_op' = Op("job_fails", job.key)
    /\ UNCHANGED <<config_vars, store, exports, sorted_keys, key_counter, chrono_counter, undo_stack, redo_stack,
                   camera_offset, tasks, consumer_running, applied>>

(***************************************************************************)
(* The render pipeline: edits, regeneration passes, workers, the channel.  *)
(***************************************************************************)
Next ==
    \/ \E b \in StrokeBounds : InsertStroke(b)
    \/ \E k \in Keys(store) : RemoveStroke(k)
    \/ \E k \in Keys(store), b \in StrokeBounds : MutateStroke(k, b)
    \/ \E o \in CameraOffsets : UpdateCameraOffset(o)
    \/ UpdateRenderingCurrentViewport
    \/ SendQuit
    \/ ProcessReceivedTask
    \/ \E j \in BagToSet(jobs), ty \in ResultTypes : JobCompletes(j, ty)
    \/ \E j \in BagToSet(jobs) : JobFails(j)

Spec == Init /\ [][Next]_vars

(***************************************************************************)
(* The store with its history: insertions, removals, record, undo, redo,   *)
(* and the render results that arrive in between.                          *)
(***************************************************************************)
NextHistory ==
    \/ \E b \in StrokeBounds : InsertStroke(b)
    \/ \E k \in Keys(store) : RemoveStroke(k)
    \/ Record
    \/ Undo
    \/ Redo
    \/ UpdateRenderingCurrentViewport
    \/ ProcessReceivedTask
    \/ \E j \in BagToSet(jobs), ty \in ResultTypes : JobCompletes(j, ty)

SpecHistory == Init /\ [][NextHistory]_vars

(***************************************************************************)
(* Editing with history: insertions, removals, mutations, clear, record,   *)
(* undo and redo, with the render jobs that undo and redo start.  The jobs *)
(* end without a result here; SpecHistory has the results arrive between   *)
(* the history operations.                                                 *)
(***************************************************************************)
NextEdit ==
    \/ \E b \in StrokeBounds : InsertStroke(b)
    \/ \E k \in Keys(store) : RemoveStroke(k)
    \/ \E k \in Keys(store), b \in StrokeBounds : MutateStroke(k, b)
    \/ Clear
    \/ Record
    \/ Undo
    \/ Redo
    \/ \E j \in BagToSet(jobs) : JobFails(j)

SpecEdit == Init /\ [][NextEdit]_vars

(***************************************************************************)
(* Exports on the worker pool while the owner thread goes on editing; the  *)
(* mutations change the content of a stroke and keep its bounds.           *)
(***************************************************************************)
NextExport ==
    \/ \E b \in StrokeBounds : InsertStroke(b)
    \/ \E k \in Keys(store) : RemoveStroke(k)
    \/ \E k \in Keys(store) : MutateStroke(k, store.key_tree[k])
    \/ Record
    \/ Undo
    \/ Redo
    \/ \E j \in BagToSet(jobs) : JobFails(j)
    \/ ExportDocAsPdfBytes
    \/ \E doc \in SerializationResults : SaveAsRnoteBytes(doc)
    \/ \E j \in exports, r \in SerializationResults : ExportWorkerFinishes(j, r)

SpecExport == Init /\ [][NextExport]_vars

(***************************************************************************)
(* The spatial index under insertions, mutations and removals, and the     *)
(* queries of it.                                                          *)
(***************************************************************************)
QueryBounds == {<<0, 2>>, <<2, 4>>, <<3, 5>>}

NextIndex ==
    \/ \E b \in StrokeBounds : InsertStroke(b)
    \/ \E k \in Keys(store) : RemoveStroke(k)
    \/ \E k \in Keys(store), b \in StrokeBounds : MutateStroke(k, b)
    \/ \E b \in QueryBounds : KeysSortedChronoIntersectingBounds(b)

SpecIndex == Init /\ [][NextIndex]_vars

(***************************************************************************)
(* The chronological order: stores of MaxChronoKeys strokes with any chrono *)
(* components (layers, values of t that tie, missing components), the      *)
(* promotion of their keys and of a key they do not hold to the front, and *)
(* the queries of the order.                                               *)
(***************************************************************************)
\* the chrono tables over the keys: a key has a component or none
ChronoTables ==
    UNION {[present -> [t : {U32(n) : n \in 0..MaxT}, layer : StrokeLayers]] :
              present \in SUBSET (1..MaxChronoKeys)}

\* the bounds of the strokes of these stores: the odd keys on the first page,
\* the even keys on the second
ChronoBounds(k) == IF k % 2 = 1 THEN <<0, 1>> ELSE <<4, 5>>

InitChrono ==
    /\ \E chrono \in ChronoTables :
          store = [stroke_components    |-> [k \in 1..MaxChronoKeys |->
                                               [id |-> k, ver |-> 0, bounds |-> ChronoBounds(k)]],
                   chrono_components    |-> chrono,
                   trash_components     |-> [k \in 1..MaxChronoKeys |-> FALSE],
                   selection_components |-> [k \in 1..MaxChronoKeys |-> FALSE],
                   render_components    |-> [k \in 1..MaxChronoKeys |->
                                               [state |-> "Dirty", images |-> <<>>]],
                   key_tree             |-> [k \in 1..MaxChronoKeys |-> ChronoBounds(k)]]
    /\ key_counter = MaxChronoKeys
    /\ chrono_counter = U32(MaxT)
    /\ undo_stack = <<>>
    /\ redo_stack = <<>>
    /\ camera_offset = 0
    /\ document = ConfigDefault
    /\ penholder = ConfigDefault
    /\ pdf_import_prefs = ConfigDefault
    /\ pen_sounds = FALSE
    /\ audioplayer = <<>>
    /\ jobs = EmptyBag
    /\ tasks = <<>>
    /\ consumer_running = TRUE
    /\ exports = {}
    /\ sorted_keys = <<>>
    /\ applied = [k \in 1..MaxChronoKeys |-> 0]
    /\ last_op = Op("new", 0)

NextChrono ==
    \/ \E k \in 1..(MaxChronoKeys + 1) : UpdateChronoToLast(k)
    \/ KeysSortedChrono
    \/ \E b \in QueryBounds : KeysSortedChronoIntersectingBounds(b)

SpecChrono == InitChrono /\ [][NextChrono]_vars

(***************************************************************************)
(* Promotion at the top of the counter's range: MaxStrokes strokes were    *)
(* the last to get a t, the counter is at u32::MAX or one below it, and    *)
(* keys are promoted and the order is queried.                             *)
(***************************************************************************)
\* the t of key k when the counter is below_max below u32::MAX
TopOfRangeT(k, below_max) == <<U32Half - 1, U32Half - 1 - below_max - (MaxStrokes - k)>>

InitWrap ==
    /\ \E below_max \in 0..1 :
          /\ store = [stroke_components    |-> [k \in 1..MaxStrokes |->
                                                  [id |-> k, ver |-> 0, bounds |-> <<0, 1>>]],
                      chrono_components    |-> [k \in 1..MaxStrokes |->
                                                  ChronoComponentNew(TopOfRangeT(k, below_max),
                                                                     StrokeLayerDefault)],
                      trash_components     |-> [k \in 1..MaxStrokes |-> FALSE],
                      selection_components |-> [k \in 1..MaxStrokes |-> FALSE],
                      render_components    |-> [k \in 1..MaxStrokes |->
                                                  [state |-> "Dirty", images |-> <<>>]],
                      key_tree             |-> [k \in 1..MaxStrokes |-> <<0, 1>>]]
          /\ chrono_counter = TopOfRangeT(MaxStrokes, below_max)
    /\ key_counter = MaxStrokes
    /\ undo_stack = <<>>
    /\ redo_stack = <<>>
    /\ camera_offset = 0
    /\ document = ConfigDefault
    /\ penholder = ConfigDefault
    /\ pdf_import_prefs = ConfigDefault
    /\ pen_sounds = FALSE
    /\ audioplayer = <<>>
    /\ jobs = EmptyBag
    /\ tasks = <<>>
    /\ consumer_running = TRUE
    /\ exports = {}
    /\ sorted_keys = <<>>
    /\ applied = [k \in 1..MaxStrokes |-> 0]
    /\ last_op = Op("new", 0)

NextWrap ==
    \/ \E k \in 1..MaxStrokes : UpdateChronoToLast(k)
    \/ KeysSortedChrono

SpecWrap == InitWrap /\ [][NextWrap]_vars

(***************************************************************************)
(* The rendered keys: strokes are inserted, trashed and restored from the  *)
(* trash, promoted and removed; the rendered keys are queried, the         *)
(* document is drawn into an svg and exported as a PDF.                    *)
(***************************************************************************)
NextRendered ==
    \/ \E b \in StrokeBounds : InsertStroke(b)
    \/ \E k \in Keys(store) : RemoveStroke(k)
    \/ \E k \in Keys(store), trashed \in BOOLEAN : SetTrashed(k, trashed)
    \/ \E k \in Keys(store) : UpdateChronoToLast(k)
    \/ StrokeKeysAsRendered
    \/ GenDocSvg
    \/ ExportDocAsPdfBytes
    \/ \E j \in exports, r \in SerializationResults : ExportWorkerFinishes(j, r)

SpecRendered == Init /\ [][NextRendered]_vars

(***************************************************************************)
(* Saving and exporting: strokes are inserted and removed, the document is *)
(* saved and exported, and every worker that was spawned runs to its end.  *)
(***************************************************************************)
ExportWorkerStep == \E j \in exports, r \in SerializationResults : ExportWorkerFinishes(j, r)

NextSave ==
    \/ \E b \in StrokeBounds : InsertStroke(b)
    \/ \E k \in Keys(store) : RemoveStroke(k)
    \/ \E doc \in SerializationResults : SaveAsRnoteBytes(doc)
    \/ ExportDocAsPdfBytes
    \/ ExportWorkerStep

SpecSave == Init /\ [][NextSave]_vars /\ WF_vars(ExportWorkerStep)

(***************************************************************************)
(* Promotion among the edits of the store: strokes are inserted, removed   *)
(* and promoted, also by a key that was removed or never given out, the    *)
(* history is recorded, undone and redone, and the order is queried.  The  *)
(* jobs an undo or redo dispatches fail, which keeps the worker pool from  *)
(* filling up.                                                             *)
(***************************************************************************)
NextPromote ==
    \/ \E b \in StrokeBounds : InsertStroke(b)
    \/ \E k \in Keys(store) : RemoveStroke(k)
    \/ \E k \in 1..(MaxStrokes + 1) : UpdateChronoToLast(k)
    \/ Clear
    \/ Record
    \/ Undo
    \/ Redo
    \/ KeysSortedChrono
    \/ \E j \in BagToSet(jobs) : JobFails(j)

SpecPromote == Init /\ [][NextPromote]_vars

(***************************************************************************)
(* The render pipeline while the workers succeed and the consumer keeps    *)
(* draining the channel: no removal, no undo or redo, no failed job, no    *)
(* Quit.  Every job that runs is finished by its worker, and every message *)
(* that waits in the channel is received.                                  *)
(***************************************************************************)
JobCompletesSome == \E j \in BagToSet(jobs), ty \in ResultTypes : JobCompletes(j, ty)

NextLive ==
    \/ \E b \in StrokeBounds : InsertStroke(b)
    \/ \E k \in Keys(store), b \in StrokeBounds : MutateStroke(k, b)
    \/ \E o \in CameraOffsets : UpdateCameraOffset(o)
    \/ UpdateRenderingCurrentViewport
    \/ ProcessReceivedTask
    \/ JobCompletesSome

SpecLive ==
    /\ Init
    /\ [][NextLive]_vars
    /\ WF_vars(JobCompletesSome)
    /\ WF_vars(ProcessReceivedTask)

(***************************************************************************)
(* Steps and states the properties speak of.                               *)
(***************************************************************************)
\* this step is one turn of the consumer loop: the oldest message is received
ProcessStep == tasks # <<>> /\ tasks' = Tail(tasks)

\* the render component of a key
Render(k) == store.render_components[k]

\* the cached images of key k show the current content of its stroke
ImagesCurrent(k) ==
    /\ Render(k).images # <<>>
    /\ Render(k).images[Len(Render(k).images)] = ImageOf(store.stroke_components[k])

\* the message was rendered from another content than key k holds now
StaleFor(task, k) == task.images # <<ImageOf(store.stroke_components[k])>>

(***************************************************************************)
(* C1: when the result of a job arrives after the content of its key was   *)
(* mutated again, so that the key is Dirty and the message shows a content *)
(* the key no longer holds, process_received_task leaves the key's cached  *)
(* images as they are and the key Dirty.                                   *)
(***************************************************************************)
C1_StaleResultIsDiscarded ==
    [][(/\ ProcessStep
        /\ Head(tasks).type # "Quit"
        /\ Head(tasks).key \in Keys(store)
        /\ Render(Head(tasks).key).state = "Dirty"
        /\ StaleFor(Head(tasks), Head(tasks).key))
       => store'.render_components[Head(tasks).key] = Render(Head(tasks).key)]_vars

(***************************************************************************)
(* C2: processing a result message whose key is no longer in the store     *)
(* leaves every table of the store as it was, and creates no entry for     *)
(* the key.                                                                *)
(***************************************************************************)
C2_RemovedKeyResultIsNoOp ==
    [][(/\ ProcessStep
        /\ Head(tasks).type # "Quit"
        /\ Head(tasks).key \notin Keys(store))
       => store' = store]_vars

\* a result message for a removed key has just been processed
C2_Witness ==
    /\ last_op.op = "dropped"
    /\ last_op.key \notin Keys(store)
    /\ last_op.key <= key_counter

(***************************************************************************)
(* C3: at most one result is applied to a key between two transitions of   *)
(* the key into Dirty.                                                     *)
(***************************************************************************)
C3_OneResultPerDirtyGeneration == \A k \in DOMAIN applied : applied[k] <= 1

\* a job or a message for key k is in flight
InFlight(k) ==
    \/ \E j \in BagToSet(jobs) : j.key = k
    \/ \E i \in 1..Len(tasks) : tasks[i].type # "Quit" /\ tasks[i].key = k

C5_FailedJobIsRetried ==
    [][(/\ last_op.op = "job_fails"
        /\ last_op.key \in Keys(store)
        /\ Render(last_op.key).state # "Rendered"
        /\ ~InFlight(last_op.key)
        /\ Intersects(store.key_tree[last_op.key], Viewport)
        /\ last_op'.op = "update_rendering")
       => \E j \in BagToSet(jobs') : j.key = last_op.key]_vars

(***************************************************************************)
(* C6: a mutation of a key sets the key Dirty in the step that changes the *)
(* content; every job a pass submits holds the content its key has at     *)
(* that moment; and no key is Rendered with cached images that show an     *)
(* older content than the key holds.                                       *)
(***************************************************************************)
C6_MutationStep ==
    last_op'.op = "mutate" =>
        /\ store'.render_components[last_op'.key].state = "Dirty"
        /\ jobs' = jobs

C6_DispatchStep ==
    last_op'.op = "update_rendering" =>
        \A j \in BagToSet(jobs') :
            CopiesIn(j, jobs') > CopiesIn(j, jobs) =>
                /\ j.key \in Keys(store)
                /\ j.content = store.stroke_components[j.key]

C6_RenderedIsCurrent ==
    \A k \in Keys(store) : Render(k).state = "Rendered" => ImagesCurrent(k)

C6_DirtyBeforeDispatch ==
    /\ [][C6_MutationStep /\ C6_DispatchStep]_vars
    /\ []C6_RenderedIsCurrent

(***************************************************************************)
(* C7: a pass of update_rendering_current_viewport submits one job, with   *)
(* the current content, for every key that is Dirty and intersects the     *)
(* viewport, and marks the key Busy; for every other key (Busy, Rendered   *)
(* or outside the viewport) it submits no job and leaves the render        *)
(* component as it is.                                                     *)
(***************************************************************************)
C7_PassStep ==
    last_op'.op = "update_rendering" =>
        /\ Keys(store') = Keys(store)
        /\ \A k \in Keys(store) :
              LET job == [key |-> k, content |-> store.stroke_components[k]]
              IN  IF Render(k).state = "Dirty" /\ Intersects(store.key_tree[k], Viewport)
                  THEN /\ store'.render_components[k].state = "Busy"
                       /\ CopiesIn(job, jobs') = CopiesIn(job, jobs) + 1
                  ELSE /\ store'.render_components[k] = Render(k)
                       /\ \A j \in BagToSet(jobs') :
                              j.key = k => CopiesIn(j, jobs') = CopiesIn(j, jobs)

C7_NonForcedPass == [][C7_PassStep]_vars

\* a pass has just made one key Busy, with its job running, and has passed
\* over another key that is Rendered, Busy without a job of this pass, or
\* outside the viewport
C7_Witness ==
    /\ last_op.op = "update_rendering"
    /\ \E k1 \in Keys(store), k2 \in Keys(store) :
          /\ k1 # k2
          /\ Render(k1).state = "Busy"
          /\ Intersects(store.key_tree[k1], Viewport)
          /\ BagIn([key |-> k1, content |-> store.stroke_components[k1]], jobs)
          /\ \/ Render(k2).state = "Rendered"
             \/ ~Intersects(store.key_tree[k2], Viewport) /\ Render(k2).state = "Dirty"

(***************************************************************************)
(* C8: while no key is removed, no undo or redo runs, no job fails and the *)
(* consumer keeps draining the channel, every key that a pass has marked   *)
(* Busy is eventually Rendered; and the pass itself returns with its jobs  *)
(* still running, without receiving anything from the channel.             *)
(***************************************************************************)
C8_PassDoesNotWait ==
    last_op'.op = "update_rendering" =>
        /\ tasks' = tasks
        /\ \A k \in Keys(store') :
              (store'.render_components[k].state = "Busy" /\ Render(k).state = "Dirty")
                  => \E j \in BagToSet(jobs') : j.key = k

C8_EventuallyRendered ==
    /\ \A k \in 1..MaxStrokes :
          (k \in Keys(store) /\ Render(k).state = "Busy")
              ~> (k \in Keys(store) /\ Render(k).state = "Rendered")
    /\ [][C8_PassDoesNotWait]_vars

\* the result of a job has just been applied: its key is Rendered with images
\* of its current content
C8_Witness ==
    /\ last_op.op = "applied"
    /\ last_op.key \in Keys(store)
    /\ Render(last_op.key).state = "Rendered"
    /\ ImagesCurrent(last_op.key)

(***************************************************************************)
(* C9: processing EngineTask::Quit ends the consumer loop, and from then   *)
(* on no message is received: the messages still queued or sent later stay *)
(* in the channel, no cached image changes and no key becomes Rendered.    *)
(***************************************************************************)
C9_AfterQuitStep ==
    ~consumer_running =>
        /\ ~consumer_running'
        /\ Len(tasks') >= Len(tasks)
        /\ SubSeq(tasks', 1, Len(tasks)) = tasks
        /\ last_op'.op \notin {"applied", "dropped", "quit"}
        /\ \A k \in Keys(store) \cap Keys(store') :
              /\ store'.render_components[k].images = Render(k).images
              /\ store'.render_components[k].state = "Rendered"
                    => Render(k).state = "Rendered"

C9_NoTaskAfterQuit ==
    /\ [](last_op.op = "quit" => ~consumer_running)
    /\ [][C9_AfterQuitStep]_vars

\* the loop has exited, and a result sent afterwards waits in the channel
C9_Witness ==
    /\ ~consumer_running
    /\ last_op.op = "job_completes"
    /\ tasks # <<>>
    /\ tasks[Len(tasks)].type \in ResultTypes

(***************************************************************************)
(* C10: an insertion returns a key that is not in the store, that no job,  *)
(* message or history entry refers to, and it leaves the entries of the    *)
(* other keys alone; so the cached images of a key always show the stroke  *)
(* that is stored under the key, also after removals, insertions, undo and *)
(* redo while results are in flight.                                       *)
(***************************************************************************)
C10_InsertStep ==
    last_op'.op = "insert" =>
        /\ last_op'.key \notin Keys(store)
        /\ Keys(store') = Keys(store) \cup {last_op'.key}
        /\ \A k \in Keys(store) :
              /\ store'.stroke_components[k] = store.stroke_components[k]
              /\ store'.render_components[k] = Render(k)
        /\ ~InFlight(last_op'.key)
        /\ \A i \in 1..Len(undo_stack) : last_op'.key \notin Keys(undo_stack[i])
        /\ \A i \in 1..Len(redo_stack) : last_op'.key \notin Keys(redo_stack[i])

C10_ImagesShowOwnStroke ==
    \A k \in Keys(store) :
        \A i \in 1..Len(Render(k).images) :
            Render(k).images[i].id = store.stroke_components[k].id

C10_KeysAreNeverReused ==
    /\ []C10_ImagesShowOwnStroke
    /\ [][C10_InsertStep]_vars

\* the result for a removed key has just been dropped while a stroke that was
\* inserted after the removal is in the store
C10_Witness ==
    /\ last_op.op = "dropped"
    /\ last_op.key \notin Keys(store)
    /\ \E k \in Keys(store) : k > last_op.key

(***************************************************************************)
(* C11: record() keeps the tables of the store in an entry that no later   *)
(* edit changes; undo() installs the stroke contents, chrono components,   *)
(* flags and bounds of that entry, so that every stroke's content and      *)
(* keys_sorted_chrono() are what they were at record(), and keeps the      *)
(* tables it replaces; a following redo() installs exactly those.          *)
(***************************************************************************)
C11_RecordStep ==
    last_op'.op = "record" =>
        Tables(undo_stack'[Len(undo_stack')]) = Tables(store)

C11_EntriesAreKept ==
    last_op'.op \notin {"record", "undo", "redo", "clear"} =>
        UNCHANGED <<undo_stack, redo_stack>>

C11_UndoStep ==
    (last_op'.op = "undo" /\ undo_stack # <<>>) =>
        /\ Tables(store') = Tables(undo_stack[Len(undo_stack)])
        /\ KeysSortedChronoResults(store')
              = KeysSortedChronoResults(undo_stack[Len(undo_stack)])
        /\ redo_stack' # <<>>
        /\ Tables(redo_stack'[Len(redo_stack')]) = Tables(store)

C11_RedoStep ==
    (last_op'.op = "redo" /\ redo_stack # <<>>) =>
        /\ Tables(store') = Tables(redo_stack[Len(redo_stack)])
        /\ KeysSortedChronoResults(store')
              = KeysSortedChronoResults(redo_stack[Len(redo_stack)])

C11_UndoRestoresRedoReapplies ==
    [][C11_RecordStep /\ C11_EntriesAreKept /\ C11_UndoStep /\ C11_RedoStep]_vars

\* undo() has just taken a stroke back to the content it had before a mutation
\* that followed the record()
C11_Witness ==
    /\ last_op.op = "undo"
    /\ redo_stack # <<>>
    /\ \E k \in Keys(store) \cap Keys(redo_stack[Len(redo_stack)]) :
          /\ store.stroke_components[k].ver = 0
          /\ redo_stack[Len(redo_stack)].stroke_components[k].ver = 1

(***************************************************************************)
(* C12: record() pushes an entry that holds the current tables (the render *)
(* states without their in-flight marks) onto the undo stack, empties the  *)
(* redo stack and leaves the store as it is; the redo stack then stays     *)
(* empty until an undo(), and a redo() on it restores nothing.             *)
(***************************************************************************)
C12_RecordStep ==
    last_op'.op = "record" =>
        /\ Len(undo_stack') = Len(undo_stack) + 1
        /\ SubSeq(undo_stack', 1, Len(undo_stack)) = undo_stack
        /\ Tables(undo_stack'[Len(undo_stack')]) = Tables(store)
        /\ \A k \in Keys(store) :
              LET kept == undo_stack'[Len(undo_stack')].render_components[k]
              IN  /\ kept.images = Render(k).images
                  /\ kept.state = IF Render(k).state = "Busy" THEN "Dirty"
                                  ELSE Render(k).state
        /\ redo_stack' = <<>>
        /\ store' = store

C12_RedoStep ==
    (last_op'.op = "redo" /\ redo_stack = <<>>) =>
        /\ Tables(store') = Tables(store)
        /\ UNCHANGED <<undo_stack, redo_stack>>

C12_OnlyUndoFills ==
    (redo_stack = <<>> /\ redo_stack' # <<>>) => last_op'.op = "undo"

C12_RecordPushesAndClearsRedo ==
    [][C12_RecordStep /\ C12_RedoStep /\ C12_OnlyUndoFills]_vars

\* record() has just pushed the tables of a store that holds strokes
C12_Witness ==
    /\ last_op.op = "record"
    /\ Keys(store) # {}
    /\ undo_stack # <<>>
    /\ redo_stack = <<>>

(***************************************************************************)
(* C13: undo() on an empty undo stack and redo() on an empty redo stack    *)
(* leave the stroke contents, the chrono components, the selection and     *)
(* trash flags, the key tree and both history stacks as they are.          *)
(***************************************************************************)
C13_UndoOnEmpty ==
    (last_op'.op = "undo" /\ undo_stack = <<>>) =>
        /\ Tables(store') = Tables(store)
        /\ UNCHANGED <<undo_stack, redo_stack>>

C13_RedoOnEmpty ==
    (last_op'.op = "redo" /\ redo_stack = <<>>) =>
        /\ Tables(store') = Tables(store)
        /\ UNCHANGED <<undo_stack, redo_stack>>

C13_EmptyStackIsNoOp == [][C13_UndoOnEmpty /\ C13_RedoOnEmpty]_vars

\* redo() has just run on an empty redo stack of a store that holds strokes
C13_Witness ==
    /\ last_op.op = "redo"
    /\ undo_stack = <<>>
    /\ redo_stack = <<>>
    /\ Keys(store) # {}

(***************************************************************************)
(* C14: installing an entry dispatches nothing by itself.  In a step of    *)
(* undo() or redo() nothing is sent on the task channel, and the only jobs *)
(* submitted are those of the pass that the caller of the store, the       *)
(* engine, runs afterwards: one job for a key that the pass marks Busy in  *)
(* the viewport, none for the other restored keys.                         *)
(***************************************************************************)
C14_RestoreStep ==
    last_op'.op \in {"undo", "redo"} =>
        /\ tasks' = tasks
        /\ \A j \in BagToSet(jobs') :
              CopiesIn(j, jobs') > CopiesIn(j, jobs) =>
                  /\ CopiesIn(j, jobs') = CopiesIn(j, jobs) + 1
                  /\ j.key \in Keys(store')
                  /\ j.content = store'.stroke_components[j.key]
                  /\ store'.render_components[j.key].state = "Busy"
                  /\ Intersects(store'.key_tree[j.key], Viewport)

BruteForceScan(s, bounds) ==
    {k \in DOMAIN s.stroke_components :
        Intersects(s.stroke_components[k].bounds, bounds)}

C17_QueryMatchesBruteForce ==
    last_op.op = "keys_sorted_chrono_intersecting_bounds" =>
        /\ {sorted_keys[i] : i \in 1..Len(sorted_keys)} = BruteForceScan(store, last_op.key)
        /\ Len(sorted_keys) = Cardinality(BruteForceScan(store, last_op.key))

\* a query has just returned a stroke whose bounds were changed, after
\* another stroke was removed
C17_Witness ==
    /\ last_op.op = "keys_sorted_chrono_intersecting_bounds"
    /\ \E i \in 1..Len(sorted_keys) :
          /\ store.stroke_components[sorted_keys[i]].ver = 1
          /\ store.stroke_components[sorted_keys[i]].bounds = <<4, 5>>
    /\ \E k \in 1..key_counter : k \notin Keys(store)

(***************************************************************************)
(* C16: the stroke contents, the chrono components, the render components, *)
(* the selection and trash flags and the key tree hold the same keys, in   *)
(* the store and in every history entry, after any sequence of insert,     *)
(* remove, mutate, record, undo, redo and clear.                           *)
(***************************************************************************)
SameKeys(s) ==
    /\ DOMAIN s.chrono_components = DOMAIN s.stroke_components
    /\ DOMAIN s.render_components = DOMAIN s.stroke_components
    /\ DOMAIN s.selection_components = DOMAIN s.stroke_components
    /\ DOMAIN s.trash_components = DOMAIN s.stroke_components
    /\ DOMAIN s.key_tree = DOMAIN s.stroke_components

C16_TablesShareKeys ==
    /\ SameKeys(store)
    /\ \A i \in 1..Len(undo_stack) : SameKeys(undo_stack[i])
    /\ \A i \in 1..Len(redo_stack) : SameKeys(redo_stack[i])

\* undo() has just brought back strokes while a key removed earlier is gone
C16_Witness ==
    /\ last_op.op = "undo"
    /\ redo_stack # <<>>
    /\ Keys(store) # {}
    /\ \E k \in 1..key_counter : k \notin Keys(store)

(***************************************************************************)
(* C18: StrokeLayer::cmp is a total order: any two layers compare, equal   *)
(* only when they are the same layer, in opposite ways when swapped, and   *)
(* transitively; Document < Image < Highlighter < UserLayer(n) for every   *)
(* n, and UserLayer(n) < UserLayer(m) exactly when n < m.                  *)
(***************************************************************************)
\* the layers of the type together with the layers of the strokes of the store
C18_Layers ==
    StrokeLayers \cup {store.chrono_components[k].layer : k \in DOMAIN store.chrono_components}

C18_LayerOrderIsTotal ==
    /\ \A a, b \in C18_Layers :
          /\ StrokeLayerCmp(a, b) \in {"Less", "Equal", "Greater"}
          /\ StrokeLayerCmp(a, b) = "Equal" <=> a = b
          /\ StrokeLayerCmp(a, b) = "Less" <=> StrokeLayerCmp(b, a) = "Greater"
    /\ \A a, b, c \in C18_Layers :
          (StrokeLayerCmp(a, b) = "Less" /\ StrokeLayerCmp(b, c) = "Less")
              => StrokeLayerCmp(a, c) = "Less"
    /\ StrokeLayerCmp(<<"Document", 0>>, <<"Image", 0>>) = "Less"
    /\ StrokeLayerCmp(<<"Image", 0>>, <<"Highlighter", 0>>) = "Less"
    /\ \A n, m \in 0..MaxUserLayer :
          /\ StrokeLayerCmp(<<"Highlighter", 0>>, <<"UserLayer", n>>) = "Less"
          /\ StrokeLayerCmp(<<"UserLayer", n>>, <<"UserLayer", m>>) = "Less" <=> n < m

\* a sort has just compared the layers Document, Image, Highlighter and a
\* user layer, and has put strokes of three of them in this order
C18_Witness ==
    /\ last_op.op = "keys_sorted_chrono"
    /\ DOMAIN store.chrono_components = Keys(store)
    /\ Len(sorted_keys) = 3
    /\ store.chrono_components[sorted_keys[1]].layer \in {<<"Document", 0>>, <<"Image", 0>>}
    /\ store.chrono_components[sorted_keys[2]].layer = <<"Highlighter", 0>>
    /\ store.chrono_components[sorted_keys[3]].layer[1] = "UserLayer"

(***************************************************************************)
(* C19: on a store in which every key has a chrono component,              *)
(* keys_sorted_chrono() returns every key once, the Document keys before   *)
(* the Image keys before the Highlighter keys before the UserLayer keys,   *)
(* the UserLayer keys by layer number, and keys of one layer by t          *)
(* ascending.                                                              *)
(***************************************************************************)
LayerRank(layer) ==
    CASE layer[1] = "Document" -> 0
      [] layer[1] = "Image" -> 1
      [] layer[1] = "Highlighter" -> 2
      [] layer[1] = "UserLayer" -> 3 + layer[2]

C19_SortedByLayerThenT ==
    (last_op.op = "keys_sorted_chrono" /\ DOMAIN store.chrono_components = Keys(store)) =>
        /\ Len(sorted_keys) = Cardinality(Keys(store))
        /\ {sorted_keys[i] : i \in 1..Len(sorted_keys)} = Keys(store)
        /\ \A i, j \in 1..Len(sorted_keys) :
              i < j =>
                  LET first  == store.chrono_components[sorted_keys[i]]
                      second == store.chrono_components[sorted_keys[j]]
                  IN  /\ LayerRank(first.layer) <= LayerRank(second.layer)
                      /\ first.layer = second.layer => U32Cmp(first.t, second.t) # "Greater"

\* the scenario: A is on UserLayer(0), B, inserted later, on Document, and
\* keys_sorted_chrono() has just returned B before A
C19_Witness ==
    /\ last_op.op = "keys_sorted_chrono"
    /\ DOMAIN store.chrono_components = Keys(store)
    /\ \E i, j \in 1..Len(sorted_keys) :
          /\ i < j
          /\ store.chrono_components[sorted_keys[i]] = [t |-> U32(2), layer |-> <<"Document", 0>>]
          /\ store.chrono_components[sorted_keys[j]] = [t |-> U32(1), layer |-> <<"UserLayer", 0>>]

(***************************************************************************)
(* C20: keys_sorted_chrono() keeps two keys that tie (same layer and same  *)
(* t) in their input order, the order of stroke_components.keys().  Stated *)
(* for the stores in which every key has a chrono component.               *)
(***************************************************************************)
C20_TiesKeepInputOrder ==
    (last_op.op = "keys_sorted_chrono" /\ DOMAIN store.chrono_components = Keys(store)) =>
        \A i, j \in 1..Len(sorted_keys) :
            (/\ i < j
             /\ ChronoCmp(store.chrono_components, sorted_keys[i], sorted_keys[j]) = "Equal")
                => sorted_keys[i] < sorted_keys[j]

(***************************************************************************)
(* C21: keys_sorted_chrono_intersecting_bounds(bounds) returns what        *)
(* keys_sorted_chrono() returns on the same store, filtered to the keys    *)
(* the spatial index reports for bounds: the same keys in the same         *)
(* relative order.  Stated for two calls that follow each other on a store *)
(* in which every key has a chrono component.                              *)
(***************************************************************************)
C21_FilteredTo(keys, hits) == SelectSeq(keys, LAMBDA k : k \in hits)

C21_IntersectingIsFilteredSort ==
    [][(/\ last_op.op = "keys_sorted_chrono"
        /\ last_op'.op = "keys_sorted_chrono_intersecting_bounds"
        /\ DOMAIN store.chrono_components = Keys(store))
          => sorted_keys' = C21_FilteredTo(sorted_keys,
                               KeysIntersectingBounds(store.key_tree, last_op'.key))]_vars

(***************************************************************************)
(* C23: update_chrono_to_last(key) changes the t of that key and the       *)
(* counter and nothing else: the layer of the key and the chrono component *)
(* of every other key stay, and any two untouched keys come in the same    *)
(* relative order in keys_sorted_chrono() before and after the call.       *)
(* Stated for the stores in which every key has a chrono component.        *)
(***************************************************************************)
\* a comes before b in the vector
ComesBefore(keys, a, b) ==
    \E i, j \in 1..Len(keys) : i < j /\ keys[i] = a /\ keys[j] = b

C23_PromotionStep ==
    (/\ last_op'.op = "update_chrono_to_last"
     /\ DOMAIN store.chrono_components = Keys(store)) =>
        LET key == last_op'.key
        IN  /\ DOMAIN store'.chrono_components = DOMAIN store.chrono_components
            /\ \A k \in DOMAIN store.chrono_components :
                  /\ store'.chrono_components[k].layer = store.chrono_components[k].layer
                  /\ k # key => store'.chrono_components[k] = store.chrono_components[k]
            /\ [store' EXCEPT !.chrono_components = store.chrono_components] = store
            /\ UNCHANGED <<key_counter, undo_stack, redo_stack, jobs, tasks>>
            /\ \A before \in KeysSortedChronoResults(store),
                  after \in KeysSortedChronoResults(store') :
                  \A a, b \in Keys(store) \ {key} :
                      ComesBefore(before, a, b) <=> ComesBefore(after, a, b)

C23_PromotionChangesOnlyT == [][C23_PromotionStep]_vars

(***************************************************************************)
(* C28: keys_sorted_chrono() returns every key of stroke_components once,  *)
(* also when keys lack a chrono component, and the keys that have one come *)
(* in (layer, t) order relative to each other.                             *)
(***************************************************************************)
C28_SortedDespiteMissingChrono ==
    last_op.op = "keys_sorted_chrono" =>
        /\ Len(sorted_keys) = Cardinality(Keys(store))
        /\ {sorted_keys[i] : i \in 1..Len(sorted_keys)} = Keys(store)
        /\ \A i, j \in 1..Len(sorted_keys) :
              (/\ i < j
               /\ sorted_keys[i] \in DOMAIN store.chrono_components
               /\ sorted_keys[j] \in DOMAIN store.chrono_components)
                  => ChronoCmp(store.chrono_components, sorted_keys[i], sorted_keys[j])
                        # "Greater"

(***************************************************************************)
(* C22: update_chrono_to_last(key) on a key of the store gives the key a t *)
(* strictly greater than the t of every other key of its layer, and        *)
(* keys_sorted_chrono() then returns the key after all of them; in every   *)
(* store reached by insertions, promotions, removals, undo and redo.       *)
(***************************************************************************)
C22_PromotionStep ==
    (/\ last_op'.op = "update_chrono_to_last"
     /\ last_op'.key \in DOMAIN store.chrono_components) =>
        LET key    == last_op'.key
            chrono == store'.chrono_components
        IN  \A k \in DOMAIN chrono \ {key} :
                chrono[k].layer = chrono[key].layer =>
                    /\ U32Cmp(chrono[key].t, chrono[k].t) = "Greater"
                    /\ \A keys \in KeysSortedChronoResults(store') :
                          ComesBefore(keys, k, key)

C22_PromotedKeyIsLast == [][C22_PromotionStep]_vars


(***************************************************************************)
(* C24: the values of t come from one counter that only grows: no two keys *)
(* of the store carry the same t, promoted or not, and the counter is      *)
(* greater than or equal to every t of the chrono table.                   *)
(***************************************************************************)
C24_TFromOneCounter ==
    /\ \A k \in DOMAIN store.chrono_components :
          U32Cmp(store.chrono_components[k].t, chrono_counter) # "Greater"
    /\ \A k1, k2 \in DOMAIN store.chrono_components :
          k1 # k2 => store.chrono_components[k1].t # store.chrono_components[k2].t


(***************************************************************************)
(* C25: update_chrono_to_last on a key that was removed or never given out *)
(* does nothing: the counter, the chrono table and every other table stay, *)
(* no component is created for the key, and the call returns.              *)
(***************************************************************************)
C25_StaleKeyStep ==
    (/\ last_op'.op = "update_chrono_to_last"
     /\ last_op'.key \notin DOMAIN store.chrono_components) =>
        /\ store' = store
        /\ last_op'.key \notin DOMAIN store'.chrono_components
        /\ UNCHANGED <<chrono_counter, key_counter, undo_stack, redo_stack, jobs, tasks>>

C25_StaleKeyIsNoOp == [][C25_StaleKeyStep]_vars

\* key 1 was inserted and removed, key 2 is in the store, and
\* update_chrono_to_last(1) has returned
C25_Witness ==
    /\ last_op = Op("update_chrono_to_last", 1)
    /\ Keys(store) = {2}
    /\ chrono_counter = U32(2)

(***************************************************************************)
(* C26: stroke_keys_as_rendered() returns the keys of the store that are   *)
(* not trashed, each once, in the order keys_sorted_chrono() has them; so  *)
(* no trashed key is drawn into the svg or the PDF of the document, and a  *)
(* page counts as a page with content for the strokes on it that are not   *)
(* trashed.                                                                *)
(***************************************************************************)
C26_NotTrashed(s) == {k \in Keys(s) : ~s.trash_components[k]}

C27_Step ==
    /\ last_op'.op = "save_as_rnote_bytes_err" => exports' = exports
    /\ last_op'.op \in {"save_as_rnote_bytes", "export_doc_as_pdf_bytes"} =>
          /\ exports \subseteq exports'
          /\ Cardinality(exports' \ exports) <= 1
          /\ \E j \in exports' :
                /\ j.taken = store
                /\ j.kind = "rnote" <=> last_op'.op = "save_as_rnote_bytes"
    /\ exports \ exports' # {} =>
          /\ Cardinality(exports \ exports') = 1
          /\ exports' \subseteq exports
          /\ last_op'.op \in {"export_sent_ok", "export_sent_err"}

C29_Installed ==
    IF last_op'.op = "undo" THEN StoreUndoStore ELSE StoreRedoStore

C29_RestoreStep ==
    (\/ last_op'.op = "undo" /\ undo_stack # <<>>
     \/ last_op'.op = "redo" /\ redo_stack # <<>>) =>
        /\ \A k \in Keys(C29_Installed) :
              C29_Installed.render_components[k].state # "Busy"
        /\ \A k \in Keys(store') :
              store'.render_components[k].state = "Busy" =>
                  \E j \in BagToSet(jobs') : j.key = k
        /\ \A k \in Keys(C29_Installed) :
              (/\ C29_Installed.render_components[k].state # "Rendered"
               /\ Intersects(C29_Installed.key_tree[k], Viewport)) =>
                  LET job == [key |-> k, content |-> C29_Installed.stroke_components[k]]
                  IN  /\ CopiesIn(job, jobs') = CopiesIn(job, jobs) + 1
                      /\ store'.render_components[k].state = "Busy"

C29_RestoredStateHasNoBusyMarks == [][C29_RestoreStep]_vars

\* an undo has installed an entry that holds key 1 among MaxStrokes keys,
\* and the one job in flight is the job its pass has submitted for the key
C29_Witness ==
    /\ last_op.op = "undo"
    /\ redo_stack # <<>>
    /\ 1 \in Keys(redo_stack[Len(redo_stack)])
    /\ 1 \in Keys(store)
    /\ store.render_components[1].state = "Busy"
    /\ BagToSet(jobs) = {[key |-> 1, content |-> store.stroke_components[1]]}
    /\ BagCardinality(jobs) = 1
    /\ Cardinality(Keys(store)) = MaxStrokes

(***************************************************************************)
(* C30: RnoteEngine::undo and redo handle the pen's Cancel (unless the pen *)
(* is the selector) before they restore the store, and render the viewport *)
(* after it: every job an undo or redo submits holds the content of a      *)
(* stroke of the restored store, never the content from before the         *)
(* restore.                                                                *)
(***************************************************************************)
C30_RestoreStep ==
    last_op'.op \in {"undo", "redo"} =>
        \A j \in BagToSet(jobs') :
            CopiesIn(j, jobs') > CopiesIn(j, jobs) =>
                /\ j.key \in Keys(store')
                /\ j.content = store'.stroke_components[j.key]
                /\ j.content = C29_Installed.stroke_components[j.key]

C34_OneLarger(a, b) ==
    \/ b[1] = a[1] /\ b[2] = a[2] + 1
    \/ b[1] = a[1] + 1 /\ b[2] = 0 /\ a[2] = U32Half - 1

C34_PromotionStep ==
    (/\ last_op'.op \in {"update_chrono_to_last", "update_chrono_to_last_panic"}
     /\ last_op'.key \in DOMAIN store.chrono_components) =>
        /\ C34_OneLarger(chrono_counter, chrono_counter')
        /\ store'.chrono_components[last_op'.key].t = chrono_counter'

C34_CounterGrowsByOne == [][C34_PromotionStep]_vars

(***************************************************************************)
(* C36: the equality of StrokeLayer agrees with its order: a == b exactly  *)
(* when a.cmp(b) is Equal, and UserLayer(n) == UserLayer(m) exactly when   *)
(* n = m.  Checked on every layer and on the layers of every store.        *)
(***************************************************************************)
C36_EqAgreesWithCmp ==
    /\ \A a, b \in C18_Layers :
          StrokeLayerEq(a, b) <=> StrokeLayerCmp(a, b) = "Equal"
    /\ \A k1, k2 \in DOMAIN store.chrono_components :
          LET a == store.chrono_components[k1].layer
              b == store.chrono_components[k2].layer
          IN  (a[1] = "UserLayer" /\ b[1] = "UserLayer") =>
                  (StrokeLayerEq(a, b) <=> a[2] = b[2])

\* the store holds strokes on UserLayer(0), on UserLayer(1) and a second one
\* on UserLayer(0), and a sort has compared them
C36_Witness ==
    /\ last_op.op = "keys_sorted_chrono"
    /\ DOMAIN store.chrono_components = 1..MaxChronoKeys
    /\ store.chrono_components[1].layer = <<"UserLayer", 0>>
    /\ store.chrono_components[2].layer = <<"UserLayer", 1>>
    /\ store.chrono_components[3].layer = <<"UserLayer", 0>>

(***************************************************************************)
(* Loading a config: the engine is built with or without an audio player,  *)
(* strokes are inserted, the camera moves, the state is recorded, and      *)
(* configs are loaded.                                                     *)
(***************************************************************************)
InitConfig ==
    /\ store = StrokeStoreDefault
    /\ key_counter = 0
    /\ chrono_counter = U32(0)
    /\ undo_stack = <<>>
    /\ redo_stack = <<>>
    /\ camera_offset = 0
    /\ document = ConfigDefault
    /\ penholder = ConfigDefault
    /\ pdf_import_prefs = ConfigDefault
    /\ pen_sounds = FALSE
    /\ audioplayer \in {<<>>, <<[enabled |-> FALSE]>>}
    /\ jobs = EmptyBag
    /\ tasks = <<>>
    /\ consumer_running = TRUE
    /\ exports = {}
    /\ sorted_keys = <<>>
    /\ applied = EmptyTable
    /\ last_op = Op("new", 0)

NextConfig ==
    \/ \E serialized_config \in SerializedConfigs : LoadEngineConfig(serialized_config)
    \/ \E d \in CameraOffsets : UpdateCameraOffset(d)
    \/ Record

SpecConfig == InitConfig /\ [][NextConfig]_vars

(***************************************************************************)
(* Pages with content: strokes are inserted, removed and trashed, and the  *)
(* bounds of the content are asked for and the document is exported as     *)
(* xopp.                                                                   *)
(***************************************************************************)
NextPages ==
    \/ \E b \in StrokeBounds : InsertStroke(b)
    \/ \E k \in Keys(store) : RemoveStroke(k)
    \/ \E k \in Keys(store), trashed \in BOOLEAN : SetTrashed(k, trashed)
    \/ BoundsWContentExtendedCall
    \/ ExportDocAsXoppBytes

SpecPages == Init /\ [][NextPages]_vars

(***************************************************************************)
(* Saving a document with trashed strokes: strokes are inserted and        *)
(* trashed, the state is recorded, the document is saved and the workers   *)
(* finish.                                                                 *)
(***************************************************************************)
NextSaving ==
    \/ \E b \in StrokeBounds : InsertStroke(b)
    \/ \E k \in Keys(store), trashed \in BOOLEAN : SetTrashed(k, trashed)
    \/ Record
    \/ \E doc \in SerializationResults : SaveAsRnoteBytes(doc)
    \/ \E j \in exports, r \in SerializationResults : ExportWorkerFinishes(j, r)

SpecSaving == Init /\ [][NextSaving]_vars

(***************************************************************************)
(* C31: process_received_task returns redraw and indicate_changed_store    *)
(* set and quit unset for every UpdateStrokeWithImages and                 *)
(* AppendImagesToStroke message, whether the store applied the images or   *)
(* discarded them; for Quit it returns quit alone and leaves the store as  *)
(* it is.                                                                  *)
(***************************************************************************)
C31_ProcessStep ==
    (/\ last_op'.op \in {"applied", "dropped", "quit"}
     /\ tasks # <<>>
     /\ tasks' = Tail(tasks)) =>
        LET task  == Head(tasks)
            flags == ProcessReceivedTaskFlags(task)
        IN  /\ task.type \in {"UpdateStrokeWithImages", "AppendImagesToStroke"} =>
                  /\ flags = [redraw |-> TRUE, indicate_changed_store |-> TRUE,
                              quit |-> FALSE]
                  /\ consumer_running'
            /\ task.type = "Quit" =>
                  /\ flags = [redraw |-> FALSE, indicate_changed_store |-> FALSE,
                              quit |-> TRUE]
                  /\ store' = store
                  /\ ~consumer_running'

C31_FlagsOfReceivedTask == [][C31_ProcessStep]_vars

\* the images of a message for a removed key were discarded, and the
\* consumer, which got redraw and indicate_changed_store, goes on
C31_Witness ==
    /\ last_op.op = "dropped"
    /\ last_op.key \notin Keys(store)
    /\ consumer_running
    /\ Keys(store) # {}

(***************************************************************************)
(* C35: load_engine_config is all-or-nothing: when it returns an error,    *)
(* document, penholder, pdf_import_prefs and pen_sounds keep the values    *)
(* they had; in every case the store, the camera and the history are       *)
(* unchanged.                                                              *)
(***************************************************************************)
C35_LoadStep ==
    /\ last_op'.op = "load_engine_config_err" =>
            UNCHANGED <<document, penholder, pdf_import_prefs, pen_sounds>>
    /\ last_op'.op \in {"load_engine_config", "load_engine_config_err"} =>
            UNCHANGED <<store, camera_offset, undo_stack, redo_stack>>

C35_AllOrNothing == [][C35_LoadStep]_vars

(***************************************************************************)
(* C33: pages_bounds_w_content returns at least one page: the pages that   *)
(* intersect a rendered, not trashed, stroke, or the origin page alone     *)
(* when there is none; so bounds_w_content_extended never returns None and *)
(* an exported xopp document has at least one page.                        *)
(***************************************************************************)
C33_PagesOfRenderedStrokes(s) ==
    {page_bounds \in PagesBounds :
        \E k \in Keys(s) : /\ ~s.trash_components[k]
                           /\ Intersects(s.stroke_components[k].bounds, page_bounds)}

C33_AtLeastOnePage ==
    /\ PagesBoundsWContent(store) # {}
    /\ PagesBoundsWContent(store) =
           IF C33_PagesOfRenderedStrokes(store) # {}
           THEN C33_PagesOfRenderedStrokes(store)
           ELSE {OriginPage}
    /\ BoundsWContentExtended(store) # <<>>
    /\ last_op.op = "bounds_w_content_extended" => last_op.key = 1
    /\ last_op.op = "export_doc_as_xopp_bytes" => last_op.key >= 1

\* a document whose only strokes are trashed and lie off the origin page is
\* exported as xopp, with one page
C33_Witness ==
    /\ last_op.op = "export_doc_as_xopp_bytes"
    /\ Keys(store) # {}
    /\ \A k \in Keys(store) : /\ store.trash_components[k]
                              /\ ~Intersects(store.stroke_components[k].bounds, OriginPage)
    /\ PagesBoundsWContent(store) = {OriginPage}

(***************************************************************************)
(* C32: save_as_rnote_bytes does not change the live store: the snapshot   *)
(* is prepared for saving on its own copy, so every table of the live      *)
(* store, the render states and cached images with them, and every history *)
(* entry is after the call what it was before, whether the call returned   *)
(* Ok or Err; the snapshot handed to the worker is the prepared one.       *)
(***************************************************************************)
C32_SaveStep ==
    last_op'.op \in {"save_as_rnote_bytes", "save_as_rnote_bytes_err"} =>
        /\ store' = store
        /\ undo_stack' = undo_stack
        /\ redo_stack' = redo_stack
        /\ \A j \in exports' \ exports :
              /\ j.snapshot = ProcessBeforeSaving(store)
              /\ \A k \in DOMAIN j.snapshot.trash_components :
                    ~j.snapshot.trash_components[k]

C32_SaveLeavesLiveStore == [][C32_SaveStep]_vars

\* a store with a trashed stroke and a recorded history entry has been saved:
\* the worker's snapshot is without the trashed stroke, which the live store
\* still holds
C32_Witness ==
    /\ last_op.op = "save_as_rnote_bytes"
    /\ undo_stack # <<>>
    /\ \E j \in exports :
          /\ j.kind = "rnote"
          /\ j.taken = store
          /\ \E k \in Keys(store) : /\ store.trash_components[k]
                                     /\ k \notin Keys(j.snapshot)

====
